---- MODULE Spec2Model ----
(***************************************************************************)
(* Verification model of the rule engine of wn3:                           *)
(*   - the Override Lifecycle Tracker   (src/src/overrides.rs)              *)
(*   - the Scoped Activation Walker     (src/src/common.rs, descend)        *)
(*   - the Pattern Compiler and Display (src/src/def/sed.rs)                *)
(*   - the Pattern Evaluator            (src/src/def/sed.rs)                *)
(* Each subsystem has its own specification (Spec, SpecWalk, SpecSed,       *)
(* SpecEval, SpecText); the variables of the other subsystems stay at       *)
(* their idle values.                                                       *)
(***************************************************************************)
EXTENDS Integers, Sequences, FiniteSets, TLC

(* ---------------------------------------------------------------------- *)
(* Bounds                                                                 *)
(* ---------------------------------------------------------------------- *)
MaxOverrides == 2
MaxVisits == 4
MaxNodes == 4
MaxRuleLen == 5
MaxTextLen == 4
MaxFetches == 4
MaxFetchOverrides == 1

(* ---------------------------------------------------------------------- *)
(* Generic helpers                                                        *)
(* ---------------------------------------------------------------------- *)
None == <<>>
Some(x) == <<x>>

SeqRange(s) == {s[k] : k \in 1..Len(s)}

Count(s, x) == Cardinality({k \in 1..Len(s) : s[k] = x})

Perms(S) == {f \in [1..Cardinality(S) -> S] : \A a, b \in 1..Cardinality(S) : a # b => f[a] # f[b]}

(* ---------------------------------------------------------------------- *)
(* Override Lifecycle Tracker                                             *)
(* ---------------------------------------------------------------------- *)
VARIABLES overrides, unactivated, active, ret, visited, ending, removedLog, panicked

trackerVars == <<overrides, unactivated, active, ret, visited, ending, removedLog, panicked>>

\* state of one walk of add_basic: the tree, the patterns of the OverrideSet,
\* the activation levels, the call stack of descend, the builder calls made
VARIABLES tree, seds, replacers, enabled, stack, out, abandoned, assertFailed, wpc

walkVars == <<tree, seds, replacers, enabled, stack, out, abandoned, assertFailed, wpc>>

\* one compile / display / recompile round of a rule string
VARIABLES rule, parsed, shown, reparsed, spc

sedVars == <<rule, parsed, shown, reparsed, spc>>

\* one call of a Sed method on a document, an element or a text
VARIABLES doc, pat, el, input, answer, epc

evalVars == <<doc, pat, el, input, answer, epc>>

\* one run of main's loop over def.content: the position in fetch_range, its
\* locals, the number of fetches by outcome, and the history of pages parsed
\* as HTML and of
\* conversions
VARIABLES curr, prev, endUrl, fpc, attempts, fetched, converted

fetchVars == <<curr, prev, endUrl, fpc, attempts, fetched, converted>>

\* the texts of a first walk, kept for the comparison with a second one
VARIABLES emitted

cmpVars == <<emitted>>

vars == <<trackerVars, walkVars, sedVars, evalVars, fetchVars, cmpVars>>

\* Page URLs a traversal can visit.
URLS == {"A", "B", "C"}
\* URLs authored in a Url selection, and the (start, end) pairs of Range selections
SingleChoices == {"A", "B"}
RangeChoices == {<<"A", "B">>, <<"A", "C">>, <<"B", "A">>, <<"A", "A">>}
\* url lists authored in a List selection (with a repeated URL among them)
ListChoices == {<<"A", "A">>, <<"B", "A", "B">>}

\* UrlSelection: Url(u) is encoded with start = end = u.
SelUrl(u) == [kind |-> "Url", start |-> u, end |-> u, list |-> <<>>]
SelRange(s, e) == [kind |-> "Range", start |-> s, end |-> e, list |-> <<>>]
SelList(l) == [kind |-> "List", start |-> "", end |-> "", list |-> l]

UrlSelection == {SelUrl(u) : u \in SingleChoices}
                  \cup {SelRange(r[1], r[2]) : r \in RangeChoices}
                  \cup {SelList(l) : l \in ListChoices}

\* the title authored on the i-th override, when it has one
TitleName(i) == "T" \o ToString(i)

\* def::OverrideChoice lists: urls and title; the pattern group (subs) of the
\* i-th choice is one Rc allocation, identified by i.
OverrideLists == {ovs \in UNION {[1..n -> [urls : UrlSelection, title : {None} \cup {Some(TitleName(i)) : i \in 1..MaxOverrides}]] : n \in 0..MaxOverrides} :
                    \A i \in 1..Len(ovs) : ovs[i].title \in {None, Some(TitleName(i))}}

\* OverrideSet::empty
EmptySet == [seds |-> <<>>, title |-> None]

is_empty(set) == set.seds = <<>> /\ set.title = None

\* keys under which OverrideTracker::new registers a choice
NewKeys(c) == IF c.urls.kind = "List" THEN SeqRange(c.urls.list) ELSE {c.urls.start}

\* number of entries new() pushes for choice c under key u: a List is
\* deduplicated by HashSet::from_iter before the pushes
PushCountNoDedup(c, u) == IF c.urls.kind = "List" THEN Count(c.urls.list, u)
                          ELSE IF u = c.urls.start THEN 1 ELSE 0
PushCount(c, u) == IF u \in NewKeys(c) THEN 1 ELSE 0

\* the tracker entry new() pushes for choice i under key u
NewEntryKeepTitle(i, c, u) == IF c.urls.kind = "Range"
                              THEN [urls |-> c.urls, title |-> c.title, subs |-> i]
                              ELSE [urls |-> SelUrl(u), title |-> c.title, subs |-> i]
NewEntry(i, c, u) == IF c.urls.kind = "Range"
                     THEN [urls |-> c.urls, title |-> None, subs |-> i]
                     ELSE [urls |-> SelUrl(u), title |-> c.title, subs |-> i]

RECURSIVE NewPending(_, _, _)
NewPending(ovs, u, i) == IF i > Len(ovs) THEN <<>>
                         ELSE [k \in 1..PushCount(ovs[i], u) |-> NewEntry(i, ovs[i], u)]
                                \o NewPending(ovs, u, i + 1)

\* OverrideTracker::new: a HashMap is a function on URLS, an absent key is <<>>
New(ovs) == [active |-> [u \in URLS |-> <<>>],
             unactivated |-> [u \in URLS |-> NewPending(ovs, u, 1)]]

\* the key an activated entry is filed under in active
ActiveKeyWrong(entry) == entry.urls.start
ActiveKey(entry) == IF entry.urls.kind = "Url" THEN entry.urls.start ELSE entry.urls.end

RECURSIVE Activate(_, _, _)
Activate(act, new_v, i) == IF i > Len(new_v) THEN act
                           ELSE Activate([act EXCEPT ![ActiveKey(new_v[i])] = Append(@, new_v[i])], new_v, i + 1)

\* title of the OverrideSet: the last entry of ending that has one wins
RECURSIVE EndingTitleFirst(_, _, _)
EndingTitleFirst(end_v, i, acc) == IF i > Len(end_v) THEN acc
                                   ELSE EndingTitleFirst(end_v, i + 1, IF end_v[i].title # None /\ acc = None THEN end_v[i].title ELSE acc)
RECURSIVE EndingTitle(_, _, _)
EndingTitle(end_v, i, acc) == IF i > Len(end_v) THEN acc
                              ELSE EndingTitle(end_v, i + 1, IF end_v[i].title # None THEN end_v[i].title ELSE acc)

EntrySubs(v) == [k \in 1..Len(v) |-> v[k].subs]

\* groups pushed for one value of active.values(): Range entries only
RangeSubs(v) == EntrySubs(SelectSeq(v, LAMBDA e : e.urls.kind = "Range"))

\* the loop over self.active.values(), visiting the keys in the order ord
RECURSIVE RemainingSedsSkipLast(_, _, _)
RemainingSedsSkipLast(act, ord, i) == IF i >= Len(ord) THEN <<>>
                                      ELSE RangeSubs(act[ord[i]]) \o RemainingSedsSkipLast(act, ord, i + 1)
RECURSIVE RemainingSeds(_, _, _)
RemainingSeds(act, ord, i) == IF i > Len(ord) THEN <<>>
                              ELSE RangeSubs(act[ord[i]]) \o RemainingSeds(act, ord, i + 1)

\* keys present in a map
Keys(m) == {u \in URLS : m[u] # <<>>}

\* self.unactivated.remove(url) and self.active.remove(url): the map afterwards
RemovePendingNot(m, url) == m
RemoveEndingNot(m, url) == m
RemovePending(m, url) == [m EXCEPT ![url] = <<>>]
RemoveEnding(m, url) == [m EXCEPT ![url] = <<>>]

\* OverrideTracker::with_url; ord is the iteration order of the HashMap
with_url_rearm(unact, act, url, ord) ==
    LET new_v == unact[url]
        act1 == Activate(act, new_v, 1)
        end_v == act1[url]
        act2 == RemoveEnding(act1, url)
    IN [unactivated |-> [u \in URLS |-> IF u = url THEN SelectSeq(end_v, LAMBDA e : e.urls.start = url)
                                        ELSE unact[u] \o SelectSeq(end_v, LAMBDA e : e.urls.start = u)],
        active |-> act2,
        ending |-> end_v,
        panicked |-> FALSE,
        ret |-> [seds |-> EntrySubs(end_v) \o RemainingSeds(act2, ord, 1),
                 title |-> EndingTitle(end_v, 1, None)]]
with_url(unact, act, url, ord) ==
    LET new_v == unact[url]
        act1 == Activate(act, new_v, 1)
        end_v == act1[url]
        act2 == RemoveEnding(act1, url)
        hitUrl == \E u \in URLS : \E k \in 1..Len(act2[u]) : act2[u][k].urls.kind = "Url"
    IN [unactivated |-> RemovePending(unact, url),
        active |-> act2,
        ending |-> end_v,
        panicked |-> hitUrl,
        ret |-> [seds |-> EntrySubs(end_v) \o RemainingSeds(act2, ord, 1),
                 title |-> EndingTitle(end_v, 1, None)]]

\* iteration orders of active.values() after url's key was removed
ValueOrders(unact, act, url) == Perms(Keys(RemoveEnding(Activate(act, unact[url], 1), url)))

RemovedNow(end_v, url) == [k \in 1..Len(end_v) |-> [subs |-> end_v[k].subs, key |-> end_v[k].urls.start, at |-> url]]

TrackerIdle ==
    /\ overrides = <<>>
    /\ unactivated = New(<<>>).unactivated
    /\ active = New(<<>>).active
    /\ ret = EmptySet
    /\ visited = <<>>
    /\ ending = <<>>
    /\ removedLog = <<>>
    /\ panicked = FALSE

TrackerInit ==
    /\ overrides \in OverrideLists
    /\ unactivated = New(overrides).unactivated
    /\ active = New(overrides).active
    /\ ret = EmptySet
    /\ visited = <<>>
    /\ ending = <<>>
    /\ removedLog = <<>>
    /\ panicked = FALSE

\* one page visit: fetch_range calls track.with_url(&curr)
TrackerStep(url) ==
    /\ \E ord \in ValueOrders(unactivated, active, url) :
         LET r == with_url(unactivated, active, url, ord)
         IN /\ unactivated' = r.unactivated
            /\ active' = r.active
            /\ ending' = r.ending
            /\ panicked' = r.panicked
            /\ ret' = IF r.panicked THEN ret ELSE r.ret
            /\ removedLog' = removedLog \o RemovedNow(r.ending, url)
    /\ visited' = Append(visited, url)
    /\ UNCHANGED overrides

Advance(url) ==
    /\ Len(visited) < MaxVisits
    /\ ~panicked
    /\ TrackerStep(url)
    /\ UNCHANGED <<walkVars, sedVars, evalVars, fetchVars, cmpVars>>

(* ---------------------------------------------------------------------- *)
(* Tracker properties                                                     *)
(* ---------------------------------------------------------------------- *)
\* group i is among the groups of the OverrideSet returned by the last call
Contributes(i) == i \in SeqRange(ret.seds)

\* index of the first visit of u, 0 when u was never visited
FirstIdx(v, u) == IF u \in SeqRange(v)
                  THEN CHOOSE k \in 1..Len(v) : v[k] = u /\ \A j \in 1..(k - 1) : v[j] # u
                  ELSE 0

\* the last call of v lies between the first visit of a and the next visit of b
RangeLive(v, a, b) == LET f == FirstIdx(v, a) IN f > 0 /\ \A j \in f..(Len(v) - 1) : v[j] # b

\* entries with group i in the map m, over all keys
Slots(m) == UNION {{u} \X (1..Len(m[u])) : u \in URLS}

CountIn(m, i) == Cardinality({p \in Slots(m) : m[p[1]][p[2]].subs = i})

\* C1: a Range{start: A, end: B} entry contributes its group to the set returned
\* by every call from the first advance(A) through the next advance(B)
\* inclusive, and to no call before or after, whatever is visited in between.
C1_RangeSpan ==
    \A i \in 1..Len(overrides) : overrides[i].urls.kind = "Range" =>
        (Contributes(i) <=> RangeLive(visited, overrides[i].urls.start, overrides[i].urls.end))

C1_Witness ==
    \E i \in 1..Len(overrides) :
        /\ overrides[i].urls.kind = "Range"
        /\ overrides[i].urls.start # overrides[i].urls.end
        /\ Len(visited) = 4
        /\ visited[1] = overrides[i].urls.start
        /\ visited[2] \notin {overrides[i].urls.start, overrides[i].urls.end}
        /\ visited[3] = overrides[i].urls.end
        /\ visited[4] = overrides[i].urls.start
        /\ ~Contributes(i)

\* C2: a Single(A) entry is activated and deactivated inside the first
\* advance(A), contributes its group to exactly that returned set, once, and to
\* no other call, also when A is visited again.
C2_SingleOnce ==
    \A i \in 1..Len(overrides) : overrides[i].urls.kind = "Url" =>
        LET a == overrides[i].urls.start
        IN /\ Count(ret.seds, i) = (IF a \in SeqRange(visited) /\ FirstIdx(visited, a) = Len(visited) THEN 1 ELSE 0)
           /\ CountIn(active, i) = 0
           /\ CountIn(unactivated, i) = (IF a \in SeqRange(visited) THEN 0 ELSE 1)
           /\ Count(removedLog, [subs |-> i, key |-> a, at |-> a]) = (IF a \in SeqRange(visited) THEN 1 ELSE 0)

C2_Witness ==
    \E i \in 1..Len(overrides) :
        /\ overrides[i].urls.kind = "Url"
        /\ Len(visited) >= 3
        /\ visited[1] = overrides[i].urls.start
        /\ visited[Len(visited)] = overrides[i].urls.start
        /\ ~Contributes(i)

\* the entries construction creates: group and pending key
AllEntries == {e \in [subs : 1..Len(overrides), key : URLS] : e.key \in NewKeys(overrides[e.subs])}

\* the URL at which an entry is removed from active
DeactivationUrl(e) == IF overrides[e.subs].urls.kind = "Range" THEN overrides[e.subs].urls.end ELSE e.key

CountEntry(m, e) == Cardinality({p \in Slots(m) : m[p[1]][p[2]].subs = e.subs /\ m[p[1]][p[2]].urls.start = e.key})

CountRemoved(e) == Cardinality({k \in 1..Len(removedLog) : removedLog[k].subs = e.subs /\ removedLog[k].key = e.key})

\* C3: after construction and after every call each entry is in exactly one of
\* pending, active, or removed (never in both maps), filed under its activation
\* key in pending and under its deactivation URL in active; it leaves active at
\* most once, and only in a call whose URL is its deactivation URL.
C3_OneMap ==
    \A e \in AllEntries :
        /\ CountEntry(unactivated, e) + CountEntry(active, e) + CountRemoved(e) = 1
        /\ \A u \in URLS : u # e.key => \A k \in 1..Len(unactivated[u]) :
              ~(unactivated[u][k].subs = e.subs /\ unactivated[u][k].urls.start = e.key)
        /\ \A u \in URLS : u # DeactivationUrl(e) => \A k \in 1..Len(active[u]) :
              ~(active[u][k].subs = e.subs /\ active[u][k].urls.start = e.key)
        /\ \A k \in 1..Len(removedLog) :
              (removedLog[k].subs = e.subs /\ removedLog[k].key = e.key) => removedLog[k].at = DeactivationUrl(e)

C3_Witness ==
    \E e \in AllEntries, f \in AllEntries, g \in AllEntries :
        /\ CountEntry(unactivated, e) = 1
        /\ CountEntry(active, f) = 1
        /\ CountRemoved(g) = 1

\* C4: a List(u1..un) choice creates one pending Single-equivalent entry per
\* distinct URL of the list, all with the choice's group, and each is consumed
\* independently the first time its own URL is visited.
C4_ListFanOut ==
    \A i \in 1..Len(overrides) : overrides[i].urls.kind = "List" =>
        /\ \A u \in URLS :
            /\ Len(SelectSeq(unactivated[u], LAMBDA e : e.subs = i))
                 = (IF u \in SeqRange(overrides[i].urls.list) /\ u \notin SeqRange(visited) THEN 1 ELSE 0)
            /\ \A k \in 1..Len(unactivated[u]) : unactivated[u][k].subs = i =>
                 unactivated[u][k] = [urls |-> SelUrl(u), title |-> overrides[i].title, subs |-> i]
        /\ CountIn(active, i) = 0
        /\ Count(ret.seds, i) = (IF /\ visited # <<>>
                                    /\ visited[Len(visited)] \in SeqRange(overrides[i].urls.list)
                                    /\ FirstIdx(visited, visited[Len(visited)]) = Len(visited)
                                 THEN 1 ELSE 0)

C4_Witness ==
    \E i \in 1..Len(overrides) :
        /\ overrides[i].urls.kind = "List"
        /\ Count(overrides[i].urls.list, "B") = 2
        /\ visited = <<"B", "A">>
        /\ Contributes(i)
        /\ CountIn(unactivated, i) = 0

\* C5: the groups of the returned set are those of the entries removed in this
\* call together with those of every entry still active, each once; the set is
\* empty when nothing was removed and nothing remains active.
C5_GroupsUnion ==
    /\ \A i \in 1..MaxOverrides : Count(ret.seds, i) = Count(EntrySubs(ending), i) + CountIn(active, i)
    /\ SeqRange(ret.seds) \subseteq 1..Len(overrides)
    /\ (ending = <<>> /\ Keys(active) = {}) => is_empty(ret)

C5_Witness ==
    /\ ending # <<>>
    /\ Keys(active) # {}
    /\ Len(ret.seds) = 2

\* C6: the title of the returned set is the title of the last-registered entry
\* among those removed in this call that carries one, None when none does.
C6_TitleLast ==
    LET titled == {k \in 1..Len(ending) : ending[k].title # None}
    IN ret.title = IF titled = {} THEN None
                   ELSE ending[CHOOSE k \in titled : \A j \in titled : ending[j].subs <= ending[k].subs].title

C6_Witness ==
    /\ Cardinality({k \in 1..Len(ending) : ending[k].title # None}) >= 2
    /\ ret.title = ending[Len(ending)].title

\* C20: across advance calls an entry only moves from pending to active to
\* removed: once out of pending it is never pending again, and once removed
\* from active it is in neither map and contributes to no later OverrideSet.
C20_ForwardOnly ==
    [][\A e \in AllEntries :
          /\ CountEntry(unactivated, e) = 0 => CountEntry(unactivated', e) = 0
          /\ CountRemoved(e) > 0 => (CountEntry(unactivated', e) = 0 /\ CountEntry(active', e) = 0)
          /\ Count(ret'.seds, e.subs) <= Cardinality({f \in AllEntries : f.subs = e.subs /\ CountRemoved(f) = 0})]_vars

\* a Range that has ended sees its start URL again and stays removed
C20_Witness ==
    \E e \in AllEntries :
        /\ overrides[e.subs].urls.kind = "Range"
        /\ overrides[e.subs].urls.start # overrides[e.subs].urls.end
        /\ CountRemoved(e) = 1
        /\ Len(visited) >= 3 /\ visited[Len(visited)] = overrides[e.subs].urls.start
        /\ visited[Len(visited) - 1] = overrides[e.subs].urls.end
        /\ CountEntry(unactivated, e) = 0 /\ CountEntry(active, e) = 0
        /\ ~Contributes(e.subs)

\* the Range entries removed by the last call whose choice was authored with
\* a title, and no entry registered after them and removed with them was
Authored(e) == overrides[e.subs].title
TitledRanges == {k \in 1..Len(ending) :
                    /\ ending[k].urls.kind = "Range" /\ Authored(ending[k]) # None
                    /\ \A j \in 1..Len(ending) : ending[j].subs > ending[k].subs => Authored(ending[j]) = None}

\* C30: the title authored on a Range choice is kept by its tracker entry and
\* is the title of the set returned by the call that removes the Range, when
\* no later-registered entry removed in that call carries a title.
C30_RangeTitleReturned ==
    \A k \in TitledRanges : ending[k].title = Authored(ending[k]) /\ ret.title = Authored(ending[k])

\* C30 amended: the tracker entry of a Range choice carries no title, whatever
\* was authored, and the call that removes the Range returns the title of the
\* last-registered Url or List entry removed with it that carries one, or no
\* title when there is none.
C30_RangeTitleDropped ==
    /\ \A u \in URLS : \A v \in {unactivated[u], active[u], ending} : \A k \in 1..Len(v) :
          v[k].urls.kind = "Range" => v[k].title = None
    /\ \A k \in 1..Len(ending) : ending[k].urls.kind = "Range" =>
          LET others == {j \in 1..Len(ending) : ending[j].urls.kind # "Range" /\ Authored(ending[j]) # None}
          IN ret.title = IF others = {} THEN None
                         ELSE Authored(ending[CHOOSE j \in others : \A i \in others : ending[i].subs <= ending[j].subs])

\* a Range authored with a title was removed, alone, and no title returned
C30_Witness ==
    /\ TitledRanges # {}
    /\ \A j \in 1..Len(ending) : ending[j].urls.kind = "Range"
    /\ ret.title = None /\ ret.seds # <<>>

\* C32: after every call the active map holds only Range entries, so the
\* unreachable!("single urls were removed prior") arm of with_url is never
\* executed.
C32_ActiveOnlyRanges ==
    /\ ~panicked
    /\ \A u \in URLS : \A k \in 1..Len(active[u]) : active[u][k].urls.kind = "Range"

\* a Url entry went through active and out of it in the call that left a
\* Range active
C32_Witness ==
    /\ \E k \in 1..Len(ending) : ending[k].urls.kind = "Url"
    /\ \E u \in URLS : active[u] # <<>>
    /\ Len(ret.seds) >= 2

\* the URL of the call that a step makes
CallUrl == visited'[Len(visited')]

\* C33: the groups of the returned set, in their order, are a function of the
\* overrides list and of the URLs visited so far. The two maps are such a
\* function (a step has one outcome for them), so two trackers with the same
\* history are in the same state, and they return the same sequence when the
\* call has one outcome for the sequence whatever order active.values() takes.
C33_OrderDetermined ==
    [][visited' # visited =>
          \A ord \in ValueOrders(unactivated, active, CallUrl) :
              with_url(unactivated, active, CallUrl, ord).ret.seds = ret'.seds]_vars

\* C38: a call with a URL that is a key of neither map leaves both maps as
\* they were and returns a set with no title whose groups are those of the
\* active Range entries, each once.
C38_ForeignUrlFrame ==
    [][(visited' # visited /\ unactivated[CallUrl] = <<>> /\ active[CallUrl] = <<>>) =>
          /\ unactivated' = unactivated
          /\ active' = active
          /\ ret'.title = None
          /\ Len(ret'.seds) = Cardinality(Slots(active))
          /\ \A i \in 1..Len(overrides) : Count(ret'.seds, i) = CountIn(active, i)]_vars

\* a URL no choice names was visited while two Ranges were active
C38_Witness ==
    /\ visited # <<>>
    /\ \A i \in 1..Len(overrides) : visited[Len(visited)] \notin {overrides[i].urls.start, overrides[i].urls.end}
    /\ Cardinality(Slots(active)) = 2
    /\ Len(ret.seds) = 2 /\ ret.title = None

\* the last call visited the end URL of Range i while i was pending
EndWhilePending(i) ==
    /\ visited # <<>>
    /\ visited[Len(visited)] = overrides[i].urls.end
    /\ FirstIdx(visited, overrides[i].urls.start) \in {0, Len(visited)}

\* the end URL of Range i was visited before the first visit of its start URL
EndThenStart(i) ==
    \E k \in 1..(FirstIdx(visited, overrides[i].urls.start) - 1) : visited[k] = overrides[i].urls.end

\* what C39 says of Range i
PendingEndIgnored(i) ==
    /\ EndWhilePending(i) =>
          /\ CountIn(unactivated, i) = 1 /\ CountIn(active, i) = 0
          /\ \A k \in 1..Len(removedLog) : removedLog[k].subs # i
          /\ ~Contributes(i)
    /\ EndThenStart(i) =>
          LET f == FirstIdx(visited, overrides[i].urls.start)
              again == \E j \in (f + 1)..Len(visited) : visited[j] = overrides[i].urls.end
          IN /\ CountIn(active, i) = (IF again THEN 0 ELSE 1)
             /\ Contributes(i) <=> \A j \in (f + 1)..(Len(visited) - 1) : visited[j] # overrides[i].urls.end

\* C39: visiting the end URL of a pending Range neither activates nor removes
\* it, and it contributes nothing to that call; when its start URL is visited
\* afterwards it becomes active and contributes to every call until its end
\* URL is visited again.
C39_EndBeforeStart ==
    \A i \in 1..Len(overrides) : overrides[i].urls.kind = "Range" => PendingEndIgnored(i)

\* C39 amended: the same for a Range whose end URL is not its start URL.
C39_EndBeforeStartDistinct ==
    \A i \in 1..Len(overrides) :
        (overrides[i].urls.kind = "Range" /\ overrides[i].urls.start # overrides[i].urls.end) => PendingEndIgnored(i)

\* the end of a Range was visited, then its start, then another URL, and the
\* Range contributes to that call
C39_Witness ==
    \E i \in 1..Len(overrides) :
        /\ overrides[i].urls.kind = "Range"
        /\ Len(visited) = 3
        /\ visited[1] = overrides[i].urls.end
        /\ visited[2] = overrides[i].urls.start
        /\ visited[3] \notin {overrides[i].urls.start, overrides[i].urls.end}
        /\ Contributes(i) /\ CountIn(active, i) = 1

(* ---------------------------------------------------------------------- *)
(* Strings, the regex engine on literal patterns, Sed                     *)
(* ---------------------------------------------------------------------- *)
\* a string is a sequence of characters
RegexMatchesAt(reg, txt, i) == i + Len(reg) - 1 <= Len(txt) /\ SubSeq(txt, i, i + Len(reg) - 1) = reg

\* Regex::is_match for a literal pattern
RegexIsMatch(reg, txt) == \E i \in 1..Len(txt) : RegexMatchesAt(reg, txt, i)

\* Regex::replace_all with NoExpand: leftmost non-overlapping matches, literal replacement
RECURSIVE RegexReplaceAllShort(_, _, _, _)
RegexReplaceAllShort(reg, txt, rep, i) ==
    IF i >= Len(txt) THEN <<>>
    ELSE IF RegexMatchesAt(reg, txt, i) THEN rep \o RegexReplaceAllShort(reg, txt, rep, i + Len(reg))
    ELSE <<txt[i]>> \o RegexReplaceAllShort(reg, txt, rep, i + 1)
RECURSIVE RegexReplaceAll(_, _, _, _)
RegexReplaceAll(reg, txt, rep, i) ==
    IF i > Len(txt) THEN <<>>
    ELSE IF RegexMatchesAt(reg, txt, i) THEN rep \o RegexReplaceAll(reg, txt, rep, i + Len(reg))
    ELSE <<txt[i]>> \o RegexReplaceAll(reg, txt, rep, i + 1)

\* Op: <<"Match">>, <<"Delete">>, <<"Print">>, <<"PrintAll">>, <<"Replace", replacement>>
OpReplace(rep) == <<"Replace", rep>>

\* struct Sed
MkSed(op, sel, reg) == [op |-> op, sel |-> sel, reg |-> reg]

is_del_never(r) == FALSE
is_del(r) == r.op = <<"Delete">>

\* Sed::apply_text
apply_text_expand(r, s) ==
    IF r.op[1] = "Replace"
    THEN RegexReplaceAll(r.reg[1], s, IF r.op[2] = <<"$", "0">> THEN r.reg[1] ELSE r.op[2], 1)
    ELSE s
apply_text(r, s) == IF r.op[1] = "Replace" THEN RegexReplaceAll(r.reg[1], s, r.op[2], 1) ELSE s

(* ---------------------------------------------------------------------- *)
(* Document trees                                                         *)
(* ---------------------------------------------------------------------- *)
\* A tree is the sequence of its nodes in document order, each with its depth
\* (the root has depth 1); a text node has the name "#text".
Elem(name, src, depth) == [name |-> name, src |-> src, text |-> <<>>, depth |-> depth]
Text(txt, depth) == [name |-> "#text", src |-> FALSE, text |-> txt, depth |-> depth]

TextContents == {<<"a", "b">>, <<"c">>}

NodeKinds(depth) == {Elem("div", FALSE, depth), Elem("span", FALSE, depth), Elem("ul", FALSE, depth),
                     Elem("img", FALSE, depth), Elem("img", TRUE, depth)}
                       \cup {Text(x, depth) : x \in TextContents}

IsText(n) == n.name = "#text"
IsElement(n) == n.name # "#text"

\* elements the HTML parser gives children to
IsContainer(n) == n.name \in {"div", "span", "ul"}

SubtreeEnd(t, k) == CHOOSE m \in k..Len(t) :
                        /\ \A j \in (k + 1)..m : t[j].depth > t[k].depth
                        /\ (m = Len(t) \/ t[m + 1].depth <= t[k].depth)

Descendants(t, k) == (k + 1)..SubtreeEnd(t, k)

Children(t, k) == {j \in Descendants(t, k) : t[j].depth = t[k].depth + 1}

Ancestors(t, k) == {j \in 1..(k - 1) : k \in Descendants(t, j)}

Parent(t, k) == CHOOSE j \in Ancestors(t, k) : t[j].depth = t[k].depth - 1

\* trees the HTML parser produces: the root is a div, children hang under
\* containers only, and no two text nodes are adjacent siblings
WellFormed(t) ==
    /\ t[1] = Elem("div", FALSE, 1)
    /\ \A k \in 2..Len(t) :
        /\ t[k].depth >= 2
        /\ t[k].depth <= t[k - 1].depth + 1
        /\ IsContainer(t[Parent(t, k)])
        /\ IsText(t[k]) => \A j \in Children(t, Parent(t, k)) :
              (j < k /\ IsText(t[j])) => \E m \in Children(t, Parent(t, k)) : j < m /\ m < k

RECURSIVE TreesOfSize(_)
TreesOfSize(n) == IF n = 1 THEN {<<Elem("div", FALSE, 1)>>}
                  ELSE {t \in UNION {{Append(s, x) : x \in UNION {NodeKinds(d) : d \in 2..(s[n - 1].depth + 1)}} : s \in TreesOfSize(n - 1)} : WellFormed(t)}

Trees == UNION {TreesOfSize(n) : n \in 1..MaxNodes}

(* ---------------------------------------------------------------------- *)
(* Pattern Evaluator on trees                                             *)
(* ---------------------------------------------------------------------- *)
\* Selector::matches for a type selector
SelectorMatches(sel, t, k) == IsElement(t[k]) /\ t[k].name = sel

\* el.text(): the text nodes of the subtree of k
TextNodes(t, k) == {j \in Descendants(t, k) : IsText(t[j])}

\* Sed::is_css_match
is_css_match(r, t, k) == r.sel = None \/ SelectorMatches(r.sel[1], t, k)

\* Sed::is_el_match
is_el_match_css_only(r, t, k) == is_css_match(r, t, k)
is_el_match(r, t, k) ==
    /\ is_css_match(r, t, k)
    /\ r.reg # None => \E j \in TextNodes(t, k) : RegexIsMatch(r.reg[1], t[j].text)

(* ---------------------------------------------------------------------- *)
(* Scoped Activation Walker                                               *)
(* ---------------------------------------------------------------------- *)
\* the flat pattern sequences (overrides.replacers()) walks are run with
PatternLists == {
    <<>>,
    <<MkSed(<<"Delete">>, Some("span"), None)>>,
    <<MkSed(<<"Delete">>, Some("div"), Some(<<"a">>))>>,
    <<MkSed(OpReplace(<<"b">>), None, Some(<<"a">>))>>,
    <<MkSed(OpReplace(<<"c">>), Some("span"), Some(<<"b">>))>>,
    <<MkSed(<<"Match">>, Some("img"), None)>>,
    <<MkSed(OpReplace(<<"c">>), Some("span"), Some(<<"b">>)), MkSed(<<"Delete">>, Some("span"), Some(<<"a">>))>>,
    <<MkSed(OpReplace(<<"b">>), None, Some(<<"a">>)), MkSed(OpReplace(<<"c">>), Some("span"), Some(<<"b">>))>>,
    <<MkSed(OpReplace(<<"c">>), Some("span"), Some(<<"b">>)), MkSed(OpReplace(<<"b">>), None, Some(<<"a">>))>>,
    <<MkSed(<<"Match">>, Some("img"), None), MkSed(OpReplace(<<"c">>), Some("span"), Some(<<"b">>))>>,
    <<MkSed(<<"PrintAll">>, Some("span"), None), MkSed(<<"Delete">>, None, Some(<<"c">>))>>,
    <<MkSed(<<"Match">>, Some("img"), None), MkSed(<<"Delete">>, Some("span"), None), MkSed(OpReplace(<<"b">>), None, Some(<<"a">>))>>}

\* the OverrideSets walks are run with: every split of a pattern sequence into
\* consecutive groups
RECURSIVE Groupings(_)
Groupings(l) == IF l = <<>> THEN {<<>>}
                ELSE UNION {{<<SubSeq(l, 1, k)>> \o g : g \in Groupings(SubSeq(l, k + 1, Len(l)))} : k \in 1..Len(l)}
PatternGroups == UNION {Groupings(l) : l \in PatternLists}

\* OverrideSet::replacers: the patterns of the groups, group after group
RECURSIVE Replacers(_)
Replacers(s) == IF s = <<>> THEN <<>> ELSE Head(s) \o Replacers(Tail(s))

\* "disable elements we matched in this level"
ResetLevel(en, level) == [i \in DOMAIN en |-> IF en[i] = level THEN 0 ELSE en[i]]

\* the pattern scan on entering element k at level: the levels afterwards,
\* whether a Delete pattern abandoned the element, and whether the
\* debug_assert!(*e < level) was false for some pattern
RECURSIVE Scan(_, _, _, _, _, _, _)
Scan(pats, en, t, k, level, i, bad) ==
    IF i > Len(pats) THEN [enabled |-> en, deleted |-> FALSE, bad |-> bad]
    ELSE IF en[i] # 0 THEN Scan(pats, en, t, k, level, i + 1, bad \/ ~(en[i] < level))
    ELSE IF is_el_match(pats[i], t, k)
         THEN IF is_del(pats[i])
              THEN [enabled |-> ResetLevel(en, level), deleted |-> TRUE, bad |-> bad]
              ELSE Scan(pats, [en EXCEPT ![i] = level], t, k, level, i + 1, bad)
         ELSE Scan(pats, en, t, k, level, i + 1, bad)

\* indices of the patterns the text fold applies, in pattern order
ActiveIdxLastFirst(en) == LET a == SelectSeq([i \in 1..Len(en) |-> i], LAMBDA i : en[i] # 0)
                          IN [k \in 1..Len(a) |-> a[Len(a) + 1 - k]]
ActiveIdx(en) == SelectSeq([i \in 1..Len(en) |-> i], LAMBDA i : en[i] # 0)

\* the fold of apply_text over the active patterns
RECURSIVE FoldText(_, _, _, _)
FoldText(pats, via, i, acc) == IF i > Len(via) THEN acc
                               ELSE FoldText(pats, via, i + 1, apply_text(pats[via[i]], acc))

\* builder calls
AddText(k, txt, via) == [call |-> "add_text", node |-> k, text |-> txt, via |-> via]
AddImage(k) == [call |-> "add_image", node |-> k, text |-> <<>>, via |-> <<>>]

Frame(k, level) == [node |-> k, level |-> level, last |-> k]

\* descend on element k at level, up to the point where it returns or starts the
\* loop over the children: the levels, the builder calls made, whether the
\* element was abandoned by a Delete match, and whether the children follow
EnterElement(pats, en, t, k, level) ==
    LET sc == Scan(pats, en, t, k, level, 1, FALSE)
    IN IF sc.deleted
       THEN [enabled |-> sc.enabled, deleted |-> TRUE, bad |-> sc.bad, calls |-> <<>>, children |-> FALSE]
       ELSE CASE t[k].name = "ul" ->
                   [enabled |-> ResetLevel(sc.enabled, level), deleted |-> FALSE, bad |-> sc.bad, calls |-> <<>>, children |-> FALSE]
              [] t[k].name = "img" /\ ~t[k].src ->
                   [enabled |-> sc.enabled, deleted |-> FALSE, bad |-> sc.bad, calls |-> <<>>, children |-> FALSE]
              [] t[k].name = "img" /\ t[k].src ->
                   [enabled |-> ResetLevel(sc.enabled, level), deleted |-> FALSE, bad |-> sc.bad, calls |-> <<AddImage(k)>>, children |-> FALSE]
              [] OTHER ->
                   [enabled |-> sc.enabled, deleted |-> FALSE, bad |-> sc.bad, calls |-> <<>>, children |-> TRUE]

\* descend on text node k: the add_text call
EnterText(pats, en, t, k) == AddText(k, FoldText(pats, ActiveIdx(en), 1, t[k].text), ActiveIdx(en))

WalkInit ==
    /\ tree \in Trees
    /\ seds \in PatternGroups
    /\ replacers = Replacers(seds)
    /\ enabled = <<>>
    /\ stack = <<>>
    /\ out = <<>>
    /\ abandoned = {}
    /\ assertFailed = FALSE
    /\ wpc = "start"

WalkIdle ==
    /\ tree = <<>>
    /\ seds = <<>>
    /\ replacers = <<>>
    /\ enabled = <<>>
    /\ stack = <<>>
    /\ out = <<>>
    /\ abandoned = {}
    /\ assertFailed = FALSE
    /\ wpc = "idle"

\* the frame on top of the stack and the child its loop visits next
Top == stack[Len(stack)]
NextChildren == {j \in Children(tree, Top.node) : j > Top.last}
NextChild == CHOOSE j \in NextChildren : \A m \in NextChildren : j <= m

\* add_basic: all levels 0, descend on the root element at level 1
AddBasic ==
    /\ wpc = "start"
    /\ LET r == EnterElement(replacers, [i \in 1..Len(replacers) |-> 0], tree, 1, 1)
       IN /\ assertFailed' = r.bad
          /\ enabled' = r.enabled
          /\ abandoned' = IF r.deleted THEN {1} ELSE {}
          /\ out' = r.calls
          /\ stack' = IF r.children THEN <<Frame(1, 1)>> ELSE <<>>
          /\ wpc' = IF r.children THEN "walking" ELSE "done"
    /\ UNCHANGED <<tree, seds, replacers>>
    /\ UNCHANGED <<trackerVars, sedVars, evalVars, fetchVars, cmpVars>>

\* the loop over el.children() reaches a text node: descend(child, level + 1)
VisitText ==
    /\ wpc = "walking"
    /\ NextChildren # {}
    /\ IsText(tree[NextChild])
    /\ out' = Append(out, EnterText(replacers, enabled, tree, NextChild))
    /\ stack' = [stack EXCEPT ![Len(stack)].last = NextChild]
    /\ UNCHANGED <<tree, seds, replacers, enabled, abandoned, assertFailed, wpc>>
    /\ UNCHANGED <<trackerVars, sedVars, evalVars, fetchVars, cmpVars>>

\* the loop over el.children() reaches an element: descend(child, level + 1)
VisitElement ==
    /\ wpc = "walking"
    /\ NextChildren # {}
    /\ IsElement(tree[NextChild])
    /\ LET k == NextChild
           r == EnterElement(replacers, enabled, tree, k, Top.level + 1)
       IN /\ assertFailed' = (assertFailed \/ r.bad)
          /\ enabled' = r.enabled
          /\ abandoned' = IF r.deleted THEN abandoned \cup {k} ELSE abandoned
          /\ out' = out \o r.calls
          /\ stack' = IF r.children
                      THEN Append([stack EXCEPT ![Len(stack)].last = k], Frame(k, Top.level + 1))
                      ELSE [stack EXCEPT ![Len(stack)].last = k]
    /\ UNCHANGED <<tree, seds, replacers, wpc>>
    /\ UNCHANGED <<trackerVars, sedVars, evalVars, fetchVars, cmpVars>>

\* the loop over the children is over: reset the levels of this level, return
Leave ==
    /\ wpc = "walking"
    /\ NextChildren = {}
    /\ enabled' = ResetLevel(enabled, Top.level)
    /\ stack' = SubSeq(stack, 1, Len(stack) - 1)
    /\ wpc' = IF Len(stack) = 1 THEN "done" ELSE "walking"
    /\ UNCHANGED <<tree, seds, replacers, out, abandoned, assertFailed>>
    /\ UNCHANGED <<trackerVars, sedVars, evalVars, fetchVars, cmpVars>>

NextWalk == AddBasic \/ VisitText \/ VisitElement \/ Leave


(* ---------------------------------------------------------------------- *)
(* Walker properties                                                      *)
(* ---------------------------------------------------------------------- *)
\* some Delete pattern of the OverrideSet matches element k
DeleteMatch(k) == IsElement(tree[k]) /\ \E i \in 1..Len(replacers) :
                      replacers[i].op = <<"Delete">> /\ is_el_match(replacers[i], tree, k)

\* the add_text calls made for node k
TextCalls(k) == {e \in 1..Len(out) : out[e].call = "add_text" /\ out[e].node = k}

C8_ScopedToSubtree ==
    \A e \in 1..Len(out) : out[e].call = "add_text" =>
        \A i \in 1..Len(replacers) : replacers[i].op # <<"Delete">> =>
            ((\E m \in 1..Len(out[e].via) : out[e].via[m] = i)
                <=> \E a \in Ancestors(tree, out[e].node) : is_el_match(replacers[i], tree, a))

\* C21: when descend has returned from an element entered at depth d no level
\* is d or more: during the loop over the children of an element every level
\* is at most the depth of that element, and all levels are 0 when add_basic
\* returns.
C21_LevelsCleared ==
    /\ wpc = "walking" => \A i \in 1..Len(enabled) : enabled[i] <= Top.level
    /\ wpc = "done" => \A i \in 1..Len(enabled) : enabled[i] = 0

\* the levels before the call of descend that a step makes
LevelsBefore == IF wpc = "start" THEN [i \in 1..Len(replacers) |-> 0] ELSE enabled

\* C22: a step in which a Delete pattern matches the element entered at depth
\* d leaves no pattern at level d, emits nothing, visits no child, and leaves
\* the levels as they were before the call.
C22_DeleteRestores ==
    [][abandoned' # abandoned =>
          /\ \A k \in abandoned' \ abandoned : \A i \in 1..Len(enabled') : enabled'[i] # tree[k].depth
          /\ out' = out
          /\ Len(stack') <= Len(stack)
          /\ enabled' = LevelsBefore]_vars

\* the text after the patterns 1..i of the flat order: group after group,
\* rule after rule, each pattern with a non-zero level applied to the output
\* of the one before
FlatPairs == {<<g, r>> : g \in 1..Len(seds), r \in 1..3} \cap
             UNION {{<<g, r>> : r \in 1..Len(seds[g])} : g \in 1..Len(seds)}
FlatRank(p) == 1 + Cardinality({q \in FlatPairs : q[1] < p[1] \/ (q[1] = p[1] /\ q[2] < p[2])})
FlatAt(i) == CHOOSE p \in FlatPairs : FlatRank(p) = i
RECURSIVE Through(_, _)
Through(i, x) == IF i = 0 THEN x
                 ELSE IF enabled[i] # 0
                      THEN apply_text(seds[FlatAt(i)[1]][FlatAt(i)[2]], Through(i - 1, x))
                      ELSE Through(i - 1, x)

\* C23: the text passed to add_text for a text node is the node's text with
\* apply_text of every pattern whose level is non-zero at that moment applied
\* in the flat pattern order, each on the output of the one before; patterns
\* at level 0 are not applied.
C23_FoldInOrder ==
    [][(Len(out') = Len(out) + 1 /\ out'[Len(out')].call = "add_text") =>
          out'[Len(out')].text = Through(Cardinality(FlatPairs), tree[out'[Len(out')].node].text)]_vars

\* two active patterns of two groups rewrote "ab": s/a/b/ first, then
\* s;span/b/c/ on its output
C23_Witness ==
    /\ Len(seds) = 2
    /\ \E e \in 1..Len(out) :
        /\ out[e].call = "add_text"
        /\ out[e].via = <<1, 2>>
        /\ tree[out[e].node].text = <<"a", "b">>
        /\ out[e].text = <<"c", "c">>

\* C24: every element that is entered and not abandoned by a Delete match has
\* each of its children visited, so every text node that is not inside a
\* Delete-matched element has exactly one add_text call when the walk is over.
C24_EveryTextOnce ==
    wpc = "done" =>
        \A k \in 1..Len(tree) :
            (IsText(tree[k]) /\ \A a \in Ancestors(tree, k) : ~DeleteMatch(a))
                => Cardinality(TextCalls(k)) = 1

\* C34: whenever the walker enters an element at depth d, every non-zero
\* level is below d: debug_assert!(*e < level) holds at every element.
C34_AssertHolds ==
    /\ ~assertFailed
    /\ (wpc = "walking" /\ NextChildren # {} /\ IsElement(tree[NextChild])) =>
          \A i \in 1..Len(enabled) : enabled[i] # 0 => enabled[i] < Top.level + 1

\* C40: the level of a Delete pattern is 0 at all times of a walk.
C40_DeleteLevelZero ==
    \A i \in 1..Len(enabled) : replacers[i].op = <<"Delete">> => enabled[i] = 0

\* a Delete pattern has abandoned an element after another pattern was applied
C40_Witness ==
    /\ wpc = "done"
    /\ \E k \in abandoned : k # 1 /\ \E i \in 1..Len(replacers) : replacers[i].op = <<"Delete">> /\ is_el_match(replacers[i], tree, k)
    /\ \E e \in 1..Len(out) : out[e].via # <<>>

(* ---------------------------------------------------------------------- *)
(* Pattern Compiler (parse_sed) and Display                               *)
(* ---------------------------------------------------------------------- *)
\* "sdpP/;".contains(opk) and "/;".contains(selsep)
OpLetters == {"d", "s", "p", "P"}
Seps == {"/", ";"}
ValidOpkNoPrintAll(c) == c \in (OpLetters \ {"P"}) \cup Seps
ValidOpk(c) == c \in OpLetters \cup Seps
IsSepAny(c) == TRUE
IsSep(c) == c \in Seps

\* sel_str.trim().is_empty()
IsBlank(x) == \A k \in 1..Len(x) : x[k] = " "

\* the characters a backslash escapes in x (x has no dangling backslash)
RECURSIVE EscapedChars(_, _)
EscapedChars(x, k) == IF k > Len(x) THEN {}
                      ELSE IF x[k] = "\\" /\ k < Len(x) THEN {x[k + 1]} \cup EscapedChars(x, k + 2)
                      ELSE EscapedChars(x, k + 1)

RECURSIVE PlainChars(_, _)
PlainChars(x, k) == IF k > Len(x) THEN {}
                    ELSE IF x[k] = "\\" /\ k < Len(x) THEN PlainChars(x, k + 2)
                    ELSE {x[k]} \cup PlainChars(x, k + 1)

\* Selector::parse succeeds: on the characters used here a selector is a chain
\* of identifiers (escaped characters included) separated by whitespace; a bare
\* ';' or '/' is no selector token and an empty selector is an error
SelectorParseOk(x) == ~IsBlank(x) /\ PlainChars(x, 1) \cap {";", "/", "\\"} = {}

\* Regex::new succeeds: every character used here is a literal, \d \s \a are
\* escapes regex-lite knows, punctuation may be escaped, \p and \P (Unicode
\* classes) are rejected
RegexNewOk(x) == x # <<>> /\ EscapedChars(x, 1) \cap {"p", "P"} = {} /\ "\\" \notin PlainChars(x, 1)

\* results of parse_sed; endi is the position of the last character read
ParseErr(msg) == [kind |-> "Err", msg |-> msg, sed |-> MkSed(<<"Match">>, None, None), endi |-> 0]
ParsePanic(msg) == [kind |-> "Panic", msg |-> msg, sed |-> MkSed(<<"Match">>, None, None), endi |-> 0]
ParseOkDropReg(sed, endi) == [kind |-> "Ok", msg |-> "", sed |-> [sed EXCEPT !.reg = None], endi |-> endi]
ParseOk(sed, endi) == [kind |-> "Ok", msg |-> "", sed |-> sed, endi |-> endi]
NotParsed == [kind |-> "None", msg |-> "", sed |-> MkSed(<<"Match">>, None, None), endi |-> 0]

\* the loop "while let Some((_i, c)) = ch.next_if(|c| c.1 != '/')": pos is the
\* position of the '/' that stops it, Len(s) + 1 at the end of input; not ok
\* when a backslash is the last character
\* &s[start..endi] with endi the index of the character at pos (s.len() at
\* the end of input): a slice whose start lies behind its end panics
SliceOk(s, start, pos) == start <= pos /\ pos <= Len(s) + 1

RECURSIVE ScanSegNoEscape(_, _)
ScanSegNoEscape(s, p) == IF p > Len(s) \/ s[p] = "/" THEN [ok |-> TRUE, pos |-> p]
                         ELSE ScanSegNoEscape(s, p + 1)
RECURSIVE ScanSeg(_, _)
ScanSeg(s, p) == IF p > Len(s) \/ s[p] = "/" THEN [ok |-> TRUE, pos |-> p]
                 ELSE IF s[p] = "\\"
                      THEN (IF p + 1 > Len(s) THEN [ok |-> FALSE, pos |-> p] ELSE ScanSeg(s, p + 2))
                      ELSE ScanSeg(s, p + 1)

\* util::Implies
implies_never(a, b) == TRUE
implies(a, b) == ~a \/ b

\* the operation, the assert and the Print check at the end of parse_sed
ParseFinish(opk, rep, sel, reg, endi) ==
    IF opk = "s" /\ rep = None THEN ParsePanic("called unwrap on None")
    ELSE IF ~ValidOpk(opk) THEN ParsePanic("invalid op character should have been filtered earlier")
    ELSE LET op == CASE opk = "d" -> <<"Delete">>
                     [] opk = "s" -> OpReplace(rep[1])
                     [] opk = "p" -> <<"Print">>
                     [] opk = "P" -> <<"PrintAll">>
                     [] OTHER -> <<"Match">>
         IN IF sel = None /\ reg = None THEN ParsePanic("this should be checked earlier")
            ELSE IF ~implies(op = <<"Print">>, reg # None) THEN ParseErr("'p' directive requires regex (try 'P')")
            ELSE ParseOk(MkSed(op, sel, reg), endi)

\* the "substitue string" part
ParseRepToEnd(s, opk, sel, reg, start, endi) ==
    IF opk = "s"
    THEN IF reg = None THEN ParseErr("substitute requires replacement")
         ELSE LET sc == ScanSeg(s, start)
              IN IF ~sc.ok THEN ParseErr("backslash without escaped character")
                 ELSE IF sc.pos # Len(s) THEN ParseErr("no trailing '/' for replacement")
                 ELSE ParseFinish(opk, Some(SubSeq(s, start, sc.pos - 1)), sel, reg, sc.pos)
    ELSE ParseFinish(opk, None, sel, reg, endi)
ParseRep(s, opk, sel, reg, start, endi) ==
    IF opk = "s"
    THEN IF reg = None THEN ParseErr("substitute requires replacement")
         ELSE LET sc == ScanSeg(s, start)
              IN IF ~sc.ok THEN ParseErr("backslash without escaped character")
                 ELSE IF sc.pos > Len(s) THEN ParseErr("no trailing '/' for replacement")
                 ELSE IF ~SliceOk(s, start, sc.pos) THEN ParsePanic("slice index starts behind its end")
                 ELSE ParseFinish(opk, Some(SubSeq(s, start, sc.pos - 1)), sel, reg, sc.pos)
    ELSE ParseFinish(opk, None, sel, reg, endi)

\* the "regex" part: entered when selsep is '/'
ParseReg(s, opk, sel, start, selsepSlash, endi) ==
    IF selsepSlash
    THEN LET sc == ScanSeg(s, start)
         IN IF ~sc.ok THEN ParseErr("backslash without escaped character")
            ELSE IF sc.pos > Len(s) THEN ParseErr("no trailing '/' for regex")
            ELSE IF ~SliceOk(s, start, sc.pos) THEN ParsePanic("slice index starts behind its end")
            ELSE LET reg_str == SubSeq(s, start, sc.pos - 1)
                 IN IF reg_str = <<>> THEN ParseErr("cannot use empty regex")
                    ELSE IF ~RegexNewOk(reg_str) THEN ParseErr("regex parse error")
                    ELSE ParseRep(s, opk, sel, Some(reg_str), sc.pos + 1, sc.pos)
    ELSE ParseRep(s, opk, sel, None, start, endi)

\* the "css selector" part: entered when selsep is ';' (q is its position)
ParseSel(s, opk, q) ==
    IF s[q] = ";"
    THEN LET sc == ScanSeg(s, q + 1)
         IN IF ~sc.ok THEN ParseErr("backslash without escaped character")
            ELSE IF ~SliceOk(s, q + 1, sc.pos) THEN ParsePanic("slice index starts behind its end")
            ELSE LET sel_str == SubSeq(s, q + 1, sc.pos - 1)
                 IN IF IsBlank(sel_str) THEN ParseErr("cannot use empty selector")
                    ELSE IF ~SelectorParseOk(sel_str) THEN ParseErr("selector parse error")
                    ELSE ParseReg(s, opk, Some(sel_str), sc.pos + 1, sc.pos <= Len(s), IF sc.pos <= Len(s) THEN sc.pos ELSE Len(s))
    ELSE ParseReg(s, opk, None, q + 1, s[q] = "/", q)

\* parse_sed
parse_sed(s) ==
    IF s = <<>> THEN ParseErr("empty string")
    ELSE IF ~ValidOpk(s[1]) THEN ParseErr("not a valid sed operation")
    ELSE IF s[1] \notin Seps /\ Len(s) < 2 THEN ParseErr("no selector")
    ELSE LET q == IF s[1] \in Seps THEN 1 ELSE 2
         IN IF ~IsSep(s[q]) THEN ParseErr("expected either '/' or ';'")
            ELSE ParseSel(s, s[1], q)

\* impl Display for Sed
DisplayNoSlash(sed) ==
    (CASE sed.op = <<"Delete">> -> <<"d">>
       [] sed.op = <<"Print">> -> <<"p">>
       [] sed.op = <<"PrintAll">> -> <<"P">>
       [] sed.op[1] = "Replace" -> <<"s">>
       [] OTHER -> <<>>)
      \o (IF sed.sel # None THEN <<";">> \o sed.sel[1] ELSE <<>>)
      \o (IF sed.reg # None THEN <<"/">> \o sed.reg[1] \o <<"/">> ELSE <<>>)
      \o (IF sed.op[1] = "Replace" THEN sed.op[2] ELSE <<>>)
Display(sed) ==
    (CASE sed.op = <<"Delete">> -> <<"d">>
       [] sed.op = <<"Print">> -> <<"p">>
       [] sed.op = <<"PrintAll">> -> <<"P">>
       [] sed.op[1] = "Replace" -> <<"s">>
       [] OTHER -> <<>>)
      \o (IF sed.sel # None THEN <<";">> \o sed.sel[1] ELSE <<>>)
      \o (IF sed.reg # None THEN <<"/">> \o sed.reg[1] \o <<"/">> ELSE <<>>)
      \o (IF sed.op[1] = "Replace" THEN sed.op[2] \o <<"/">> ELSE <<>>)

\* rule strings: every string up to MaxRuleLen over RuleChars, and the rules
\* composed of an operation letter, a selector part, a regex part, a
\* replacement part and trailing text
RuleChars == {"d", "s", "p", ";", "/", "\\", " ", "a"}

ShortRules == UNION {[1..n -> RuleChars] : n \in 0..MaxRuleLen}

OpParts == {<<>>, <<"d">>, <<"s">>, <<"p">>, <<"P">>}
SelParts == {<<>>, <<";", "a">>, <<";", " ", "a", " ">>, <<";", "a", "\\", "/", "a">>}
RegParts == {<<>>, <<"/", "a", "/">>, <<"/", "a", "\\", "/", "/">>, <<"/", "\\", "p", "/">>}
RepParts == {<<>>, <<"/">>, <<"a", "/">>, <<"\\", "/", "a", "/">>}
TailParts == {<<>>, <<"a">>, <<"/">>}

ComposedRules == {o \o s \o r \o p \o x : o \in OpParts, s \in SelParts, r \in RegParts, p \in RepParts, x \in TailParts}

RuleStrings == ShortRules \cup ComposedRules

SedInit ==
    /\ rule \in RuleStrings
    /\ parsed = NotParsed
    /\ shown = <<>>
    /\ reparsed = NotParsed
    /\ spc = "start"

SedIdle ==
    /\ rule = <<>>
    /\ parsed = NotParsed
    /\ shown = <<>>
    /\ reparsed = NotParsed
    /\ spc = "idle"

\* Sed::new(rule)
Compile ==
    /\ spc = "start"
    /\ parsed' = parse_sed(rule)
    /\ spc' = "parsed"
    /\ UNCHANGED <<rule, shown, reparsed>>
    /\ UNCHANGED <<trackerVars, walkVars, evalVars, fetchVars, cmpVars>>

\* sed.to_string()
Show ==
    /\ spc = "parsed"
    /\ parsed.kind = "Ok"
    /\ shown' = Display(parsed.sed)
    /\ spc' = "shown"
    /\ UNCHANGED <<rule, parsed, reparsed>>
    /\ UNCHANGED <<trackerVars, walkVars, evalVars, fetchVars, cmpVars>>

\* Sed::new(&sed.to_string())
Recompile ==
    /\ spc = "shown"
    /\ reparsed' = parse_sed(shown)
    /\ spc' = "reparsed"
    /\ UNCHANGED <<rule, parsed, shown>>
    /\ UNCHANGED <<trackerVars, walkVars, evalVars, fetchVars, cmpVars>>

NextSed == Compile \/ Show \/ Recompile


(* ---------------------------------------------------------------------- *)
(* Pattern Evaluator: queries and whole-document application              *)
(* ---------------------------------------------------------------------- *)
is_matcher(r) == r.op = <<"Match">>
is_sub(r) == r.op[1] = "Replace"
is_destructive_always(r) == TRUE
is_destructive(r) == r.op = <<"Delete">> \/ r.op[1] = "Replace"

\* Sed::should_delete
should_delete(r, t, k) == IF ~is_del(r) THEN FALSE ELSE is_el_match(r, t, k)

\* Html::select: every element of the document the selector matches
HtmlSelect(sel, t) == {k \in 1..Len(t) : SelectorMatches(sel, t, k)}

\* ElementRef::select: the descendant elements of k the selector matches
ElSelectWithSelf(sel, t, k) == {j \in Descendants(t, k) \cup {k} : SelectorMatches(sel, t, j)}
ElSelect(sel, t, k) == {j \in Descendants(t, k) : SelectorMatches(sel, t, j)}

\* Sed::contains_match; "unreachable" stands for the unreachable!() arm
contains_match(r, t, k) ==
    IF ~is_matcher(r) THEN "false"
    ELSE IF r.sel = None /\ r.reg = None THEN "unreachable"
    ELSE IF r.sel = None
         THEN (IF \E j \in TextNodes(t, k) : RegexIsMatch(r.reg[1], t[j].text) THEN "true" ELSE "false")
    ELSE IF r.reg = None
         THEN (IF ElSelect(r.sel[1], t, k) # {} THEN "true" ELSE "false")
    ELSE IF \E e \in ElSelect(r.sel[1], t, k) : \E j \in TextNodes(t, e) : RegexIsMatch(r.reg[1], t[j].text)
         THEN "true" ELSE "false"

\* el.ancestors().flat_map(ElementRef::wrap): the elements above k, nearest
\* first; the iterator starts at the parent of k
NearestFrom(t, k, cands) == CHOOSE j \in cands : \A m \in cands : m <= j

\* Sed::parent_css_match
parent_css_match(r, t, k) ==
    IF r.sel # None
    THEN LET hits == {a \in Ancestors(t, k) : SelectorMatches(r.sel[1], t, a)}
         IN IF hits = {} THEN None ELSE Some(NearestFrom(t, k, hits))
    ELSE Some(k)

\* the nodes still attached after detach() of every node of ids
Detached(t, ids) == {k \in 1..Len(t) : k \in ids \/ Ancestors(t, k) \cap ids # {}}

RECURSIVE KeepNodes(_, _, _)
KeepNodes(t, gone, k) == IF k > Len(t) THEN <<>>
                         ELSE IF k \in gone THEN KeepNodes(t, gone, k + 1)
                         ELSE <<t[k]>> \o KeepNodes(t, gone, k + 1)

\* html.html() followed by Html::parse_document: text nodes that have become
\* adjacent siblings come back as one text node
RECURSIVE Reparse(_)
Reparse(t) == IF Len(t) < 2 THEN t
              ELSE IF IsText(t[1]) /\ IsText(t[2]) /\ t[1].depth = t[2].depth
                   THEN Reparse(<<Text(t[1].text \o t[2].text, t[1].depth)>> \o SubSeq(t, 3, Len(t)))
                   ELSE <<t[1]>> \o Reparse(Tail(t))

\* results of whole-document application: ids are the nodes detached or
\* rewritten, reg_ids the ancestor set built for a Delete with regex
FullOk(t, rp, ids, reg_ids) == [tree |-> t, panicked |-> FALSE, reparsed |-> rp, ids |-> ids, reg_ids |-> reg_ids]
FullPanic(t) == [tree |-> t, panicked |-> TRUE, reparsed |-> FALSE, ids |-> {}, reg_ids |-> {}]

\* the text nodes the regex matches
RegMatchIds(r, t) == {j \in 1..Len(t) : IsText(t[j]) /\ RegexIsMatch(r.reg[1], t[j].text)}

\* node.ancestors(): the ancestors of j, nearest first
AncestorChain(t, j) == LET a == Ancestors(t, j)
                       IN [n \in 1..Cardinality(a) |-> CHOOSE x \in a : Cardinality({y \in a : y > x}) = n - 1]

\* "for node in ancestors { if !reg_ids.insert(node.id()) { break; } }"
RECURSIVE WalkUpParentOnly(_, _, _)
WalkUpParentOnly(chain, ids, i) == IF i > Len(chain) \/ i > 1 THEN ids ELSE ids \cup {chain[i]}
RECURSIVE WalkUp(_, _, _)
WalkUp(chain, ids, i) == IF i > Len(chain) \/ chain[i] \in ids THEN ids
                         ELSE WalkUp(chain, ids \cup {chain[i]}, i + 1)

\* the loop over reg_match_ids, taken in the order ord
RECURSIVE AncestorClosure(_, _, _, _)
AncestorClosure(t, ord, i, ids) == IF i > Len(ord) THEN ids
                                   ELSE AncestorClosure(t, ord, i + 1, WalkUp(AncestorChain(t, ord[i]), ids, 1))

\* the elements apply_deletes_expensive detaches
DetachIdsSelected(r, t, ord) == HtmlSelect(r.sel[1], t)
DetachIds(r, t, ord) == IF r.reg # None
                        THEN HtmlSelect(r.sel[1], t) \cap AncestorClosure(t, ord, 1, {})
                        ELSE HtmlSelect(r.sel[1], t)

\* Sed::apply_deletes_expensive; ord is the order of reg_match_ids
apply_deletes_expensive(r, t, ord) ==
    IF r.sel = None THEN FullPanic(t)
    ELSE FullOk(Reparse(KeepNodes(t, Detached(t, DetachIds(r, t, ord)), 1)), TRUE,
                DetachIds(r, t, ord),
                IF r.reg # None THEN AncestorClosure(t, ord, 1, {}) ELSE {})

\* the loop over html.select(sel), taken in the order ord: the text nodes to
\* rewrite
RECURSIVE SubsLoopChildren(_, _, _, _, _, _)
SubsLoopChildren(r, t, ord, i, visited_els, text_subs) ==
    IF i > Len(ord) THEN text_subs
    ELSE IF ord[i] \in visited_els THEN SubsLoopChildren(r, t, ord, i + 1, visited_els, text_subs)
    ELSE IF Ancestors(t, ord[i]) \cap (visited_els \cup {ord[i]}) # {}
         THEN SubsLoopChildren(r, t, ord, i + 1, visited_els \cup {ord[i]}, text_subs)
    ELSE SubsLoopChildren(r, t, ord, i + 1, visited_els \cup {ord[i]},
                          text_subs \cup (Children(t, ord[i]) \cap RegMatchIds(r, t)))
RECURSIVE SubsLoop(_, _, _, _, _, _)
SubsLoop(r, t, ord, i, visited_els, text_subs) ==
    IF i > Len(ord) THEN text_subs
    ELSE IF ord[i] \in visited_els THEN SubsLoop(r, t, ord, i + 1, visited_els, text_subs)
    ELSE IF Ancestors(t, ord[i]) \cap (visited_els \cup {ord[i]}) # {}
         THEN SubsLoop(r, t, ord, i + 1, visited_els \cup {ord[i]}, text_subs)
    ELSE SubsLoop(r, t, ord, i + 1, visited_els \cup {ord[i]},
                  text_subs \cup (Descendants(t, ord[i]) \cap RegMatchIds(r, t)))

\* Sed::apply_subs_expensive; ord is the order html.select yields
apply_subs_expensive(r, t, ord) ==
    IF r.reg = None THEN FullPanic(t)
    ELSE LET text_ids == IF r.sel # None THEN SubsLoop(r, t, ord, 1, {}, {}) ELSE RegMatchIds(r, t)
         IN FullOk([j \in 1..Len(t) |-> IF j \in text_ids THEN Text(apply_text(r, t[j].text), t[j].depth) ELSE t[j]],
                   FALSE, text_ids, {})

\* Sed::apply_full_expensive
apply_full_expensive(r, t, ord) ==
    IF ~is_destructive(r) THEN FullOk(t, FALSE, {}, {})
    ELSE IF r.op = <<"Delete">> THEN apply_deletes_expensive(r, t, ord)
    ELSE IF r.op[1] = "Replace" THEN apply_subs_expensive(r, t, ord)
    ELSE FullPanic(t)

\* the orders the iterations of apply_full_expensive may take
FullOrders(r, t) == IF r.op = <<"Delete">> /\ r.reg # None THEN Perms(RegMatchIds(r, t))
                    ELSE IF r.op[1] = "Replace" /\ r.sel # None THEN Perms(HtmlSelect(r.sel[1], t))
                    ELSE {<<>>}

\* the patterns the evaluator is called with: every operation with the
\* selector and regex combinations parse_sed can return
EvalSels == {None, Some("span"), Some("div")}
EvalRegs == {None, Some(<<"a">>)}
EvalOps == {<<"Match">>, <<"Delete">>, <<"Print">>, <<"PrintAll">>, OpReplace(<<"b">>)}
EvalPatterns == {r \in {MkSed(o, s, g) : o \in EvalOps, s \in EvalSels, g \in EvalRegs} :
                    /\ (r.sel # None \/ r.reg # None)
                    /\ (r.op[1] = "Replace" => r.reg # None)
                    /\ (r.op = <<"Print">> => r.reg # None)}

\* the patterns and texts apply_text is called with
TextRegs == {<<"a">>, <<"a", "b">>, <<"a", "a">>}
TextReps == {<<>>, <<"b">>, <<"a">>, <<"b", "a">>, <<"$", "0">>}
TextPatterns == {MkSed(OpReplace(p), None, Some(g)) : p \in TextReps, g \in TextRegs}
                  \cup {MkSed(o, None, Some(<<"a">>)) : o \in {<<"Match">>, <<"Delete">>, <<"Print">>, <<"PrintAll">>}}
                  \cup {MkSed(<<"Delete">>, Some("span"), None)}
Texts == UNION {[1..n -> {"a", "b"}] : n \in 0..MaxTextLen}

NoAnswer == [flag |-> FALSE, node |-> None, tree |-> <<>>, text |-> <<>>, again |-> <<>>,
             panicked |-> FALSE, reparsed |-> FALSE, ids |-> {}, reg_ids |-> {}, order |-> <<>>]

EvalInit ==
    /\ doc \in Trees
    /\ pat \in EvalPatterns
    /\ el = 0
    /\ input = <<>>
    /\ answer = NoAnswer
    /\ epc = "start"

TextInit ==
    /\ doc = <<Elem("div", FALSE, 1)>>
    /\ pat \in TextPatterns
    /\ el = 0
    /\ input \in Texts
    /\ answer = NoAnswer
    /\ epc = "start"

EvalIdle ==
    /\ doc = <<>>
    /\ pat = MkSed(<<"Match">>, None, None)
    /\ el = 0
    /\ input = <<>>
    /\ answer = NoAnswer
    /\ epc = "idle"

Elements(t) == {k \in 1..Len(t) : IsElement(t[k])}

\* pat.should_delete(&el)
ShouldDelete ==
    /\ epc = "start"
    /\ \E k \in Elements(doc) :
        /\ el' = k
        /\ answer' = [NoAnswer EXCEPT !.flag = should_delete(pat, doc, k)]
    /\ epc' = "should_delete"
    /\ UNCHANGED <<doc, pat, input>>
    /\ UNCHANGED <<trackerVars, walkVars, sedVars, fetchVars, cmpVars>>

\* pat.parent_css_match(&el)
ParentCssMatch ==
    /\ epc = "start"
    /\ \E k \in Elements(doc) :
        /\ el' = k
        /\ answer' = [NoAnswer EXCEPT !.node = parent_css_match(pat, doc, k)]
    /\ epc' = "parent_css_match"
    /\ UNCHANGED <<doc, pat, input>>
    /\ UNCHANGED <<trackerVars, walkVars, sedVars, fetchVars, cmpVars>>

\* pat.contains_match(&el)
ContainsMatch ==
    /\ epc = "start"
    /\ \E k \in Elements(doc) :
        /\ el' = k
        /\ answer' = [NoAnswer EXCEPT !.flag = (contains_match(pat, doc, k) = "true"),
                                      !.panicked = (contains_match(pat, doc, k) = "unreachable")]
    /\ epc' = "contains_match"
    /\ UNCHANGED <<doc, pat, input>>
    /\ UNCHANGED <<trackerVars, walkVars, sedVars, fetchVars, cmpVars>>

\* pat.apply_full_expensive(&mut html)
ApplyFull ==
    /\ epc = "start"
    /\ \E ord \in FullOrders(pat, doc) :
         LET res == apply_full_expensive(pat, doc, ord)
         IN answer' = [NoAnswer EXCEPT !.tree = res.tree, !.panicked = res.panicked, !.reparsed = res.reparsed,
                                       !.ids = res.ids, !.reg_ids = res.reg_ids, !.order = ord]
    /\ epc' = "apply_full"
    /\ UNCHANGED <<doc, pat, el, input>>
    /\ UNCHANGED <<trackerVars, walkVars, sedVars, fetchVars, cmpVars>>

\* pat.apply_text(input)
ApplyText ==
    /\ epc = "start"
    /\ answer' = [NoAnswer EXCEPT !.text = apply_text(pat, input)]
    /\ epc' = "once"
    /\ UNCHANGED <<doc, pat, el, input>>
    /\ UNCHANGED <<trackerVars, walkVars, sedVars, fetchVars, cmpVars>>

\* pat.apply_text(pat.apply_text(input))
ApplyTextAgain ==
    /\ epc = "once"
    /\ answer' = [answer EXCEPT !.again = apply_text(pat, answer.text)]
    /\ epc' = "twice"
    /\ UNCHANGED <<doc, pat, el, input>>
    /\ UNCHANGED <<trackerVars, walkVars, sedVars, fetchVars, cmpVars>>

NextEval == ShouldDelete \/ ParentCssMatch \/ ContainsMatch \/ ApplyFull

NextText == ApplyText \/ ApplyTextAgain

(* ---------------------------------------------------------------------- *)
(* Properties of the Pattern Compiler                                     *)
(* ---------------------------------------------------------------------- *)
\* position of the first '/' at or after st that is not escaped, counting the
\* backslashes in front of it back to st; Len(s) + 1 when there is none
BackslashRun(s, st, j) == CHOOSE n \in 0..(j - st) :
                              /\ \A k \in (j - n)..(j - 1) : s[k] = "\\"
                              /\ (j - n - 1 < st \/ s[j - n - 1] # "\\")
SegEnd(s, st) == LET stops == {j \in st..Len(s) : s[j] = "/" /\ BackslashRun(s, st, j) % 2 = 0}
                 IN IF stops = {} THEN Len(s) + 1
                    ELSE CHOOSE j \in stops : \A k \in stops : j <= k

\* the shape of a rule: position of the first separator, whether a ';' and a
\* '/' segment are present and where they start and end
SepPos(s) == IF s[1] \in Seps THEN 1 ELSE 2
HasSep(s) == s # <<>> /\ s[1] \in OpLetters \cup Seps /\ Len(s) >= SepPos(s) /\ s[SepPos(s)] \in Seps
HasSelSeg(s) == HasSep(s) /\ s[SepPos(s)] = ";"
SelSegEnd(s) == SegEnd(s, SepPos(s) + 1)
SelText(s) == SubSeq(s, SepPos(s) + 1, SelSegEnd(s) - 1)
HasRegSeg(s) == HasSep(s) /\ (s[SepPos(s)] = "/" \/ SelSegEnd(s) <= Len(s))
RegStart(s) == IF s[SepPos(s)] = "/" THEN SepPos(s) + 1 ELSE SelSegEnd(s) + 1
RegSegEnd(s) == SegEnd(s, RegStart(s))

\* the rule strings that must not compile
RejEmpty(s) == s = <<>>
RejFirstChar(s) == s # <<>> /\ s[1] \notin {"d", "s", "p", "P", ";", "/"}
RejNoSeparator(s) == s # <<>> /\ s[1] \in OpLetters /\ (Len(s) < 2 \/ s[2] \notin Seps)
RejEmptySelector(s) == HasSelSeg(s) /\ IsBlank(SelText(s))
RejEmptyRegex(s) == HasRegSeg(s) /\ RegSegEnd(s) = RegStart(s)
RejOpenRegex(s) == HasRegSeg(s) /\ RegSegEnd(s) > Len(s)
RejSubstNoRegex(s) == HasSep(s) /\ s[1] = "s" /\ ~HasRegSeg(s)
RejSubstOpen(s) == HasRegSeg(s) /\ s[1] = "s" /\ RegSegEnd(s) <= Len(s) /\ SegEnd(s, RegSegEnd(s) + 1) > Len(s)
RejPrintNoRegex(s) == HasSep(s) /\ s[1] = "p" /\ ~HasRegSeg(s)

Rejected(s) == \/ RejEmpty(s) \/ RejFirstChar(s) \/ RejNoSeparator(s) \/ RejEmptySelector(s)
               \/ RejEmptyRegex(s) \/ RejOpenRegex(s) \/ RejSubstNoRegex(s) \/ RejSubstOpen(s)
               \/ RejPrintNoRegex(s)

\* C9: an accepted rule, rendered and parsed again, compiles to an equal Sed
\* (same operation, selector source, regex source); a Match pattern is rendered
\* starting with its separator and no operation letter; a rule with nothing
\* behind its last delimiter is rendered as itself.
C9_RoundTrip ==
    /\ spc \in {"shown", "reparsed"} =>
          /\ (parsed.sed.op = <<"Match">> => shown[1] \in Seps)
          /\ (parsed.sed.op # <<"Match">> => shown[1] \in OpLetters /\ shown[2] \in Seps)
          /\ (parsed.endi = Len(rule) => shown = rule)
    /\ spc = "reparsed" =>
          /\ reparsed.kind = "Ok"
          /\ reparsed.sed.op = parsed.sed.op
          /\ reparsed.sed.sel = parsed.sed.sel
          /\ reparsed.sed.reg = parsed.sed.reg

\* a Substitute rule with selector, regex, replacement and trailing text has
\* gone through the round trip
C9_Witness ==
    /\ spc = "reparsed"
    /\ parsed.sed.op[1] = "Replace" /\ parsed.sed.op[2] # <<>>
    /\ parsed.sed.sel # None /\ parsed.sed.reg # None
    /\ parsed.endi < Len(rule)
    /\ shown # rule

\* C10: parse_sed returns an error, and no Pattern, for the empty string, a
\* first character that is no operation letter or separator, an operation
\* letter without a separator behind it, a blank selector, an empty or
\* unterminated regex, a Substitute without regex or without the '/' closing
\* its replacement, and a Print without regex.
C10_Rejects ==
    /\ (spc # "start" /\ Rejected(rule)) => parsed.kind = "Err"
    /\ (spc = "reparsed" /\ Rejected(shown)) => reparsed.kind = "Err"

\* a Print rule with a selector and no regex has been refused
C10_Witness ==
    /\ spc = "parsed"
    /\ RejPrintNoRegex(rule) /\ ~RejEmptySelector(rule)
    /\ parsed.kind = "Err"

\* the regex and replacement text of a rule that has a '/' segment
RegText(s) == SubSeq(s, RegStart(s), RegSegEnd(s) - 1)
RepEnd(s) == SegEnd(s, RegSegEnd(s) + 1)
RepText(s) == SubSeq(s, RegSegEnd(s) + 1, RepEnd(s) - 1)

\* rule forms: a selector alone, or a closed regex with an optional selector,
\* each made of text the selector and regex engines take
FormSelOnly(s) == HasSelSeg(s) /\ SelSegEnd(s) > Len(s) /\ SelectorParseOk(SelText(s))
FormReg(s) == /\ HasRegSeg(s) /\ RegSegEnd(s) <= Len(s) /\ RegexNewOk(RegText(s))
              /\ (HasSelSeg(s) => SelectorParseOk(SelText(s)))
FormMatch(s) == s # <<>> /\ s[1] \in Seps /\ (FormSelOnly(s) \/ (FormReg(s) /\ RegSegEnd(s) = Len(s)))
FormSubstitute(s) == s # <<>> /\ s[1] = "s" /\ FormReg(s) /\ RepEnd(s) = Len(s)
FormDelete(s) == s # <<>> /\ s[1] = "d" /\ (FormSelOnly(s) \/ (FormReg(s) /\ RegSegEnd(s) = Len(s)))
FormPrintAll(s) == s # <<>> /\ s[1] = "P" /\ FormSelOnly(s)
Accepted(s) == FormMatch(s) \/ FormSubstitute(s) \/ FormDelete(s) \/ FormPrintAll(s)

\* the pattern written in a rule of one of these forms
Written(s) == MkSed(CASE s[1] = "d" -> <<"Delete">>
                      [] s[1] = "s" -> OpReplace(RepText(s))
                      [] s[1] = "P" -> <<"PrintAll">>
                      [] OTHER -> <<"Match">>,
                    IF HasSelSeg(s) THEN Some(SelText(s)) ELSE None,
                    IF FormSelOnly(s) THEN None ELSE Some(RegText(s)))

\* C11: parse_sed accepts a Match rule with regex, selector or both, a
\* Substitute rule with a regex and a replacement that may be empty, a Delete
\* rule with regex, selector or both, and a PrintAll rule with a selector; the
\* compiled operation, selector text and regex text are those of the rule.
C11_Accepts ==
    (spc # "start" /\ Accepted(rule)) => (parsed.kind = "Ok" /\ parsed.sed = Written(rule))

\* a Substitute rule with an empty replacement has been compiled
C11_Witness ==
    /\ spc = "parsed"
    /\ FormSubstitute(rule) /\ RepText(rule) = <<>> /\ ~HasSelSeg(rule)
    /\ parsed.kind = "Ok" /\ parsed.sed.op = OpReplace(<<>>)

\* C12: a pattern returned by parse_sed has a selector or a regex, has a
\* regex when its operation is Substitute, and has a regex when its operation
\* is Print.
C12_PatternInvariant ==
    \A r \in {parsed, reparsed} : r.kind = "Ok" =>
        /\ (r.sed.sel # None \/ r.sed.reg # None)
        /\ (r.sed.op[1] = "Replace" => r.sed.reg # None)
        /\ (r.sed.op = <<"Print">> => r.sed.reg # None)

\* a Print rule and its regex have been compiled
C12_Witness ==
    /\ spc = "parsed"
    /\ parsed.kind = "Ok" /\ parsed.sed.op = <<"Print">>
    /\ parsed.sed.reg # None /\ parsed.sed.sel = None

\* the segment in which the scan of a rule reaches the end of the rule, if it
\* does: the selector, the regex or the replacement that no '/' closes
ReachesEnd(s) == /\ HasSep(s)
                 /\ \/ HasSelSeg(s) /\ SelSegEnd(s) > Len(s)
                    \/ HasRegSeg(s) /\ RegSegEnd(s) > Len(s)
                    \/ HasRegSeg(s) /\ s[1] = "s" /\ RepEnd(s) > Len(s)
LastSegStart(s) == IF HasSelSeg(s) /\ SelSegEnd(s) > Len(s) THEN SepPos(s) + 1
                   ELSE IF RegSegEnd(s) > Len(s) THEN RegStart(s)
                   ELSE RegSegEnd(s) + 1
EndsInBackslash(s) == ReachesEnd(s) /\ s[Len(s)] = "\\"
DanglingBackslash(s) == EndsInBackslash(s) /\ BackslashRun(s, LastSegStart(s), Len(s)) % 2 = 0

\* the segments of a compiled rule run to the first '/' that no backslash
\* escapes, and their text is the text of the rule, backslashes included
SegmentsKept ==
    parsed.kind = "Ok" =>
        /\ parsed.sed.sel = (IF HasSelSeg(rule) THEN Some(SelText(rule)) ELSE None)
        /\ parsed.sed.reg # None => parsed.sed.reg = Some(RegText(rule))
        /\ parsed.sed.op[1] = "Replace" => parsed.sed.op = OpReplace(RepText(rule))

\* C28: in a selector, regex or replacement segment a backslash escapes the
\* next character: an escaped '/' does not end the segment, the segment text
\* keeps the backslash and the escaped character, and a rule whose scan ends
\* on a backslash as its last character does not compile.
C28_BackslashEscapes ==
    spc # "start" =>
        /\ SegmentsKept
        /\ EndsInBackslash(rule) => parsed.kind = "Err"

\* C28 amended: the same, for a last backslash that is not itself escaped.
C28_DanglingBackslash ==
    spc # "start" =>
        /\ SegmentsKept
        /\ DanglingBackslash(rule) => parsed.kind = "Err"

\* a rule with an escaped '/' inside its regex has been compiled, the regex
\* text holding the backslash and the '/'
C28_Witness ==
    /\ spc = "parsed" /\ parsed.kind = "Ok"
    /\ parsed.sed.reg # None
    /\ \E i \in 1..(Len(parsed.sed.reg[1]) - 1) :
          parsed.sed.reg[1][i] = "\\" /\ parsed.sed.reg[1][i + 1] = "/"

\* a rule ending in a backslash that escapes nothing has been rejected
C28_WitnessDangling ==
    /\ spc = "parsed" /\ DanglingBackslash(rule) /\ Len(rule) >= 3
    /\ parsed.kind = "Err"

\* C29: a Substitute rule compiles only when a '/' that no backslash escapes
\* closes the replacement; characters after that '/' are allowed, and the
\* compiled pattern is the pattern compiled from the rule cut after that '/'.
C29_TrailingIgnored ==
    (spc # "start" /\ rule # <<>> /\ rule[1] = "s") =>
        /\ parsed.kind = "Ok" => (HasRegSeg(rule) /\ RegSegEnd(rule) <= Len(rule) /\ RepEnd(rule) <= Len(rule))
        /\ (FormReg(rule) /\ RepEnd(rule) <= Len(rule)) =>
              /\ parsed.kind = "Ok"
              /\ parse_sed(SubSeq(rule, 1, RepEnd(rule))).kind = "Ok"
              /\ parsed.sed = parse_sed(SubSeq(rule, 1, RepEnd(rule))).sed

\* a Substitute rule with characters after the closing '/' has been compiled
C29_Witness ==
    /\ spc = "parsed" /\ rule # <<>> /\ rule[1] = "s"
    /\ parsed.kind = "Ok"
    /\ RepEnd(rule) < Len(rule)
    /\ parsed.sed.op = OpReplace(RepText(rule))

\* C36: parse_sed returns a pattern or an error for every rule and never
\* panics: not at the assert on selector or regex, not at rep.unwrap(), not
\* at a string slice.
C36_Total ==
    \A r \in {parsed, reparsed} : r.kind # "Panic"

\* a Substitute rule that ends with its selector, where the start of the next
\* segment lies two behind the end of the rule, has been rejected
C36_Witness ==
    /\ spc = "parsed"
    /\ rule # <<>> /\ rule[1] = "s" /\ HasSelSeg(rule) /\ SelSegEnd(rule) > Len(rule)
    /\ parsed.kind = "Err" /\ parsed.msg = "substitute requires replacement"

(* ---------------------------------------------------------------------- *)
(* Properties of the Pattern Evaluator                                    *)
(* ---------------------------------------------------------------------- *)
\* the selector of pat names element k; the regex of pat occurs in text node j
SelNames(k) == doc[k].name # "#text" /\ doc[k].name = pat.sel[1]
RegOccurs(j) == doc[j].name = "#text" /\
                \E i \in 1..(Len(doc[j].text) - Len(pat.reg[1]) + 1) :
                    SubSeq(doc[j].text, i, i + Len(pat.reg[1]) - 1) = pat.reg[1]
Below(k) == {j \in (k + 1)..Len(doc) : \A m \in (k + 1)..j : doc[m].depth > doc[k].depth}
Above(k) == {a \in 1..(k - 1) : k \in Below(a)}

\* C13: should_delete(el) is true iff the operation is Delete, the selector,
\* if any, matches el itself, and the regex, if any, matches a single text
\* node of el's subtree; it is false for every other operation, and for a
\* selector-only Delete it is the selector match on el.
C13_ShouldDelete ==
    epc = "should_delete" =>
        /\ answer.flag = (/\ pat.op = <<"Delete">>
                          /\ (pat.sel # None => SelNames(el))
                          /\ (pat.reg # None => \E j \in Below(el) : RegOccurs(j)))
        /\ (pat.op # <<"Delete">> => ~answer.flag)
        /\ (pat.op = <<"Delete">> /\ pat.reg = None => answer.flag = SelNames(el))

\* a Delete with selector and regex is asked about two nested elements its
\* selector matches, and only the text below decides
C13_Witness ==
    /\ epc = "should_delete"
    /\ pat.op = <<"Delete">> /\ pat.sel # None /\ pat.reg # None
    /\ SelNames(el) /\ el # 1
    /\ \E j \in 1..Len(doc) : RegOccurs(j) /\ j \notin Below(el)
    /\ ~answer.flag

\* the elements a Delete pattern matches, and what is left without them
DeleteMatched == {k \in 1..Len(doc) : /\ doc[k].name # "#text"
                                      /\ (pat.sel # None => SelNames(k))
                                      /\ (pat.reg # None => \E j \in Below(k) : RegOccurs(j))}
DeleteGone == {k \in 1..Len(doc) : k \in DeleteMatched \/ Above(k) \cap DeleteMatched # {}}

\* C16: whole-document application of a Delete pattern removes the matched
\* elements with their subtrees and nothing else: the nodes left are the
\* nodes outside, with the same parent, sibling order and content.
C16_DeleteFrame ==
    (epc = "apply_full" /\ pat.op = <<"Delete">>) =>
        /\ ~answer.panicked
        /\ answer.tree = KeepNodes(doc, DeleteGone, 1)

\* C17: whole-document application of a Match, Print or PrintAll pattern
\* returns with the document as it was: nothing detached, no text rewritten,
\* no reparse.
C17_NonDestructiveNoop ==
    (epc = "apply_full" /\ pat.op \in {<<"Match">>, <<"Print">>, <<"PrintAll">>}) =>
        /\ ~answer.panicked
        /\ ~answer.reparsed
        /\ answer.tree = doc

\* a Print pattern whose selector and regex match in the document was applied
C17_Witness ==
    /\ epc = "apply_full"
    /\ pat.op = <<"Print">> /\ pat.sel # None
    /\ \E k \in 1..Len(doc) : SelNames(k) /\ \E j \in Below(k) : RegOccurs(j)
    /\ answer.tree = doc

\* C18: parent_css_match(el) is the nearest node the selector matches, el
\* first and then its ancestors outward; el itself without a selector; None
\* when a selector is present and matches neither el nor an ancestor.
C18_NearestMatch ==
    epc = "parent_css_match" =>
        LET hits == {a \in Above(el) \cup {el} : SelNames(a)}
        IN answer.node = IF pat.sel = None THEN Some(el)
                         ELSE IF hits = {} THEN None
                         ELSE Some(CHOOSE a \in hits : \A b \in hits : b <= a)

\* C19: contains_match(root) on a Match pattern holds iff, with selector and
\* regex, an element selected under root has a matching text node in its
\* subtree; with a selector only, an element is selected under root; with a
\* regex only, a text node under root matches; on any other operation it is
\* false.
C19_ContainsMatch ==
    epc = "contains_match" =>
        LET selected == {k \in Below(el) : SelNames(k)}
        IN /\ ~answer.panicked
           /\ answer.flag = (/\ pat.op = <<"Match">>
                             /\ (pat.sel # None /\ pat.reg # None => \E k \in selected : \E j \in Below(k) : RegOccurs(j))
                             /\ (pat.sel # None /\ pat.reg = None => selected # {})
                             /\ (pat.sel = None => \E j \in Below(el) : RegOccurs(j)))
           /\ (pat.op # <<"Match">> => ~answer.flag)

\* a Match with selector and regex: the selector names the root asked about
\* and a matching text lies under it, but under no selected element
C19_Witness ==
    /\ epc = "contains_match"
    /\ pat.op = <<"Match">> /\ pat.sel # None /\ pat.reg # None
    /\ SelNames(el)
    /\ \E k \in Below(el) : SelNames(k)
    /\ \E j \in Below(el) : RegOccurs(j)
    /\ ~answer.flag

\* C25: for a Delete pattern with selector and regex the elements detached by
\* whole-document application are the elements should_delete holds for: the
\* selected elements with a regex-matching text node in their subtree.
C25_DetachedAreShouldDelete ==
    (epc = "apply_full" /\ pat.op = <<"Delete">> /\ pat.sel # None /\ pat.reg # None) =>
        /\ answer.ids = {k \in 1..Len(doc) : should_delete(pat, doc, k)}
        /\ answer.ids = {k \in 1..Len(doc) : SelNames(k) /\ \E j \in Below(k) : RegOccurs(j)}

\* one selected element with a matching text was detached, a selected element
\* without one and an unselected element around a matching text were not
C25_Witness ==
    /\ epc = "apply_full" /\ pat.op = <<"Delete">> /\ pat.sel # None /\ pat.reg # None
    /\ answer.ids # {}
    /\ \E k \in 1..Len(doc) : SelNames(k) /\ k \notin answer.ids
    /\ \E k \in 1..Len(doc) : doc[k].name # "#text" /\ ~SelNames(k) /\ k \notin answer.ids
                              /\ \E j \in Below(k) : RegOccurs(j)

\* C26: the ancestor set built for a Delete with regex, which leaves a text
\* node's ancestor chain at the first ancestor already in the set, is the set
\* of all proper ancestors of all regex-matching text nodes, in every order
\* of the text nodes.
C26_AncestorClosure ==
    (epc = "apply_full" /\ pat.op = <<"Delete">> /\ pat.sel # None /\ pat.reg # None) =>
        answer.reg_ids = UNION {Above(j) : j \in {n \in 1..Len(doc) : RegOccurs(n)}}

\* two matching text nodes at different depths, the deeper one taken first,
\* so that the walk up from the second stops at once
C26_Witness ==
    /\ epc = "apply_full" /\ pat.op = <<"Delete">> /\ pat.sel # None /\ pat.reg # None
    /\ Len(answer.order) = 2
    /\ doc[answer.order[1]].depth > doc[answer.order[2]].depth
    /\ Above(answer.order[2]) \subseteq Above(answer.order[1])
    /\ Cardinality(answer.reg_ids) = 2

\* C27: whole-document application of a Substitute pattern with a selector
\* rewrites with apply_text, once, every regex-matching text node under a
\* selected element and no other node, in whatever order the selected
\* elements come; without a selector, every regex-matching text node.
C27_SubstituteScope ==
    (epc = "apply_full" /\ pat.op[1] = "Replace") =>
        LET scope == {j \in 1..Len(doc) : RegOccurs(j) /\ (pat.sel # None => \E k \in Above(j) : SelNames(k))}
        IN /\ ~answer.panicked
           /\ answer.ids = scope
           /\ Len(answer.tree) = Len(doc)
           /\ \A j \in 1..Len(doc) :
                 answer.tree[j] = IF j \in scope
                                  THEN [doc[j] EXCEPT !.text = apply_text(pat, doc[j].text)]
                                  ELSE doc[j]

\* nested selected elements, the inner one yielded before the outer one, with
\* a matching text inside the inner one that was rewritten
C27_Witness ==
    /\ epc = "apply_full" /\ pat.op[1] = "Replace" /\ pat.sel # None
    /\ Len(answer.order) >= 2
    /\ answer.order[2] \in Above(answer.order[1])
    /\ \E j \in answer.ids : j \in Below(answer.order[1]) /\ answer.tree[j].text # doc[j].text

\* C35: whole-document application completes without a panic for every
\* Delete and Substitute pattern the compiler accepts, a Delete with a regex
\* and no selector among them.
C35_NoPanic ==
    (epc = "apply_full" /\ (pat.op = <<"Delete">> \/ pat.op[1] = "Replace")) => ~answer.panicked

(* ---------------------------------------------------------------------- *)
(* Properties of apply_text                                               *)
(* ---------------------------------------------------------------------- *)
\* the regex of pat occurs in x at position i, or somewhere in x
OccursAt(x, i) == i + Len(pat.reg[1]) - 1 <= Len(x) /\
                  \A d \in 1..Len(pat.reg[1]) : x[i + d - 1] = pat.reg[1][d]
OccursIn(x) == \E i \in 1..Len(x) : OccursAt(x, i)

\* the matches replaced in input: an occurrence is taken unless an earlier
\* taken one overlaps it
Taken == CHOOSE S \in SUBSET (1..Len(input)) :
             \A p \in 1..Len(input) :
                 p \in S <=> (OccursAt(input, p) /\ ~\E q \in S : q < p /\ p < q + Len(pat.reg[1]))
Piece(i) == IF i \in Taken THEN pat.op[2]
            ELSE IF \E q \in Taken : q < i /\ i < q + Len(pat.reg[1]) THEN <<>>
            ELSE <<input[i]>>
RECURSIVE Pieces(_)
Pieces(i) == IF i > Len(input) THEN <<>> ELSE Piece(i) \o Pieces(i + 1)

\* C14: apply_text on a Substitute pattern returns the input with every
\* non-overlapping match, taken left to right, replaced by the replacement
\* text as written; on any other operation it returns the input.
C14_ReplaceAll ==
    epc \in {"once", "twice"} =>
        answer.text = IF pat.op[1] = "Replace" THEN Pieces(1) ELSE input

\* "aaa" under s/aa/$0/: the first match is taken, the overlapping one is
\* not, and "$0" is written as it stands
C14_Witness ==
    /\ epc = "once"
    /\ pat.op = OpReplace(<<"$", "0">>) /\ pat.reg = Some(<<"a", "a">>)
    /\ input = <<"a", "a", "a">>
    /\ answer.text = <<"$", "0", "a">>

FetchIdle ==
    /\ curr = ""
    /\ prev = None
    /\ endUrl = ""
    /\ fpc = "idle"
    /\ attempts = [html |-> 0, failed |-> 0]
    /\ fetched = <<>>
    /\ converted = <<>>

\* what one pass through the head of the loop can meet: a URL of the wrong
\* scheme, a failed fetch, a body that is not HTML, a body that is not UTF-8,
\* or a page that Html::parse_document is given
FetchOutcomes == {"scheme", "fail", "wrongtype", "notutf8", "html"}

\* track.with_url(&curr) is reached only behind the ensure! and ? of the head
AdvancesAlways(outcome) == TRUE
Advances(outcome) == outcome = "html"

\* main: one entry of def.content; fetch_range up to the loop
FetchRange(start, end, sameOrigin) ==
    /\ fpc \in {"idle", "done", "err"}
    /\ attempts.html + attempts.failed < MaxFetches
    /\ ~panicked
    /\ IF sameOrigin
       THEN curr' = start /\ prev' = None /\ endUrl' = end /\ fpc' = "loop"
       ELSE fpc' = "err" /\ UNCHANGED <<curr, prev, endUrl>>
    /\ UNCHANGED <<attempts, fetched, converted>>
    /\ UNCHANGED <<trackerVars, walkVars, sedVars, evalVars, cmpVars>>

\* the loop from its top to track.with_url(&curr)
FetchPage(outcome) ==
    /\ fpc = "loop"
    /\ attempts.html + attempts.failed < MaxFetches
    /\ Len(visited) < MaxVisits
    /\ attempts' = IF outcome = "html" THEN [attempts EXCEPT !.html = @ + 1]
                                        ELSE [attempts EXCEPT !.failed = @ + 1]
    /\ fetched' = IF outcome = "html" THEN Append(fetched, curr) ELSE fetched
    /\ IF Advances(outcome) THEN TrackerStep(curr) ELSE UNCHANGED trackerVars
    /\ fpc' = IF outcome # "html" THEN "err" ELSE IF panicked' THEN "panic" ELSE "advanced"
    /\ UNCHANGED <<curr, prev, endUrl, converted>>
    /\ UNCHANGED <<walkVars, sedVars, evalVars, cmpVars>>

\* the loop from parse_with_overrides to its end; ok is the outcome of the
\* conversion and of Url::parse, next the link found on the page
Convert(ok, next, sameHost) ==
    /\ fpc = "advanced"
    /\ converted' = Append(converted, [url |-> curr, calls |-> Len(visited)])
    /\ IF ~ok THEN fpc' = "err" /\ UNCHANGED <<curr, prev>>
       ELSE IF prev # None /\ prev = next THEN fpc' = "err" /\ UNCHANGED <<curr, prev>>
       ELSE IF curr = endUrl THEN fpc' = "done" /\ UNCHANGED <<curr, prev>>
       ELSE IF next = None THEN fpc' = "done" /\ UNCHANGED <<curr, prev>>
       ELSE IF ~sameHost THEN fpc' = "err" /\ prev' = Some(curr) /\ UNCHANGED curr
       ELSE fpc' = "loop" /\ prev' = Some(curr) /\ curr' = next[1]
    /\ UNCHANGED <<endUrl, attempts, fetched>>
    /\ UNCHANGED <<trackerVars, walkVars, sedVars, evalVars, cmpVars>>

NextFetch ==
    \/ \E start, end \in URLS : \E sameOrigin \in BOOLEAN : FetchRange(start, end, sameOrigin)
    \/ \E outcome \in FetchOutcomes : FetchPage(outcome)
    \/ \E ok \in BOOLEAN : \E next \in {None} \cup {Some(u) : u \in URLS} : \E sameHost \in BOOLEAN :
          Convert(ok, next, sameHost)

(* ---------------------------------------------------------------------- *)
(* Properties of the page traversal                                       *)
(* ---------------------------------------------------------------------- *)
\* C31: the tracker is advanced once for each page that was fetched and
\* parsed as HTML, in the order of the visits, and before the page is
\* converted; a page whose fetch fails does not advance the tracker.
C31_AdvancedOncePerPage ==
    /\ visited = fetched
    /\ Len(visited) = attempts.html
    /\ \A k \in 1..Len(converted) : converted[k].calls = k /\ converted[k].url = visited[k]
    /\ Len(converted) \in {Len(visited), Len(visited) - 1}
    /\ Len(converted) < Len(visited) <=> fpc \in {"advanced", "panic"}

\* two pages were advanced and converted in turn, and a fetch has failed
C31_Witness ==
    /\ Len(converted) = 2 /\ Len(visited) = 2 /\ visited[1] # visited[2]
    /\ attempts.failed = 1
    /\ fpc = "err"

(* ---------------------------------------------------------------------- *)
(* The walker against whole-document application                          *)
(* ---------------------------------------------------------------------- *)
CmpIdle == emitted = None

\* the texts passed to add_text, in their order
OutTexts(o) == LET calls == SelectSeq(o, LAMBDA c : c.call = "add_text")
               IN [k \in 1..Len(calls) |-> calls[k].text]

\* a walk of doc with pat as its only pattern, and pat.apply_full_expensive
\* on a copy of doc, both still to be made
CmpInit ==
    /\ doc \in Trees
    /\ pat \in {r \in EvalPatterns : is_destructive(r)}
    /\ el = 0
    /\ input = <<>>
    /\ answer = NoAnswer
    /\ epc = "start"
    /\ tree = doc
    /\ seds = <<<<pat>>>>
    /\ replacers = Replacers(seds)
    /\ enabled = <<>>
    /\ stack = <<>>
    /\ out = <<>>
    /\ abandoned = {}
    /\ assertFailed = FALSE
    /\ wpc = "start"
    /\ emitted = None

\* the first walk is over and the document was rewritten: keep the texts and
\* start add_basic on the root of the rewritten document with
\* OverrideSet::empty(); a document without nodes gives no call
Rewalk ==
    /\ wpc = "done"
    /\ epc = "apply_full"
    /\ ~answer.panicked
    /\ emitted = None
    /\ emitted' = Some(OutTexts(out))
    /\ tree' = answer.tree
    /\ seds' = <<>>
    /\ replacers' = <<>>
    /\ enabled' = <<>>
    /\ stack' = <<>>
    /\ out' = <<>>
    /\ abandoned' = {}
    /\ assertFailed' = FALSE
    /\ wpc' = IF answer.tree = <<>> THEN "done" ELSE "start"
    /\ UNCHANGED <<trackerVars, sedVars, evalVars, fetchVars>>

NextCmp == AddBasic \/ VisitText \/ VisitElement \/ Leave \/ ApplyFull \/ Rewalk

\* C37: for one Delete or Substitute pattern, the texts the walker emits for
\* the document with the pattern in its set are the texts it emits, with an
\* empty set, for the document after whole-document application of the
\* pattern.
C37_SameTexts ==
    /\ epc = "apply_full" => ~answer.panicked
    /\ (emitted # None /\ wpc = "done") => OutTexts(out) = emitted[1]

(* ---------------------------------------------------------------------- *)
(* Specifications                                                         *)
(* ---------------------------------------------------------------------- *)
Next == \E url \in URLS : Advance(url)

Init == TrackerInit /\ WalkIdle /\ SedIdle /\ EvalIdle /\ FetchIdle /\ CmpIdle

Spec == Init /\ [][Next]_vars

InitWalk == WalkInit /\ TrackerIdle /\ SedIdle /\ EvalIdle /\ FetchIdle /\ CmpIdle

SpecWalk == InitWalk /\ [][NextWalk]_vars

InitSed == SedInit /\ TrackerIdle /\ WalkIdle /\ EvalIdle /\ FetchIdle /\ CmpIdle

SpecSed == InitSed /\ [][NextSed]_vars

InitEval == EvalInit /\ TrackerIdle /\ WalkIdle /\ SedIdle /\ FetchIdle /\ CmpIdle

SpecEval == InitEval /\ [][NextEval]_vars

InitText == TextInit /\ TrackerIdle /\ WalkIdle /\ SedIdle /\ FetchIdle /\ CmpIdle

SpecText == InitText /\ [][NextText]_vars

InitFetch ==
    /\ TrackerInit /\ Len(overrides) <= MaxFetchOverrides
    /\ FetchIdle /\ WalkIdle /\ SedIdle /\ EvalIdle /\ CmpIdle

SpecFetch == InitFetch /\ [][NextFetch]_vars

InitCmp == CmpInit /\ TrackerIdle /\ SedIdle /\ FetchIdle

SpecCmp == InitCmp /\ [][NextCmp]_vars

====
